---------------------------- MODULE Spec2Model ----------------------------
(***************************************************************************)
(* Model of FloraRoute: CalculadorRutas (Dijkstra, distance matrix,        *)
(* Held-Karp, path expansion) and GestorRutas (suppliers, order,           *)
(* allocation by simulation, route computation).                           *)
(*                                                                         *)
(* Conventions                                                             *)
(*   - float('inf') is the number Inf; Suma saturates at Inf as float      *)
(*     addition does, and Inf < Inf is false as in Python.                 *)
(*   - Python None is NoneVal where an int is expected, Nada where a list  *)
(*     or a dict is, Ninguno where an object is.                           *)
(*   - dicts are functions; a missing key is a point outside the DOMAIN.   *)
(*   - a stock or demand dict is a total function over Flores: a missing   *)
(*     flower reads as 0 everywhere the code reads it (.get(flor, 0)).     *)
(***************************************************************************)
EXTENDS Integers, Sequences, FiniteSets, TLC

\* ------------------------------------------------------------- bounds ---
NumNodos == 4          \* graph keys are 0 .. NumNodos-1
MaxFactor == 2         \* factor_trafico is 1 .. MaxFactor
MaxParadas == 3        \* longest stop list handed to the solver
MaxDemanda == 2        \* largest demand of one flower at one destination
MaxContador == 2       \* destination ids handed out by the manager
Pesos == {1, 3}        \* edge weights (0 stands for an absent edge)

Inf == 999999
NoneVal == -9
Nada == NoneVal :> NoneVal
Ninguno == [ninguno |-> TRUE]

Nodos == 0 .. (NumNodos - 1)
NodoAusente == NumNodos            \* a node id that is not a key of the graph
Factores == 1 .. MaxFactor

\* ------------------------------------------------------------ helpers ---
Rango(s) == {s[i] : i \in DOMAIN s}

MinDe(S) == CHOOSE x \in S : \A y \in S : x <= y

Suma(a, b) == IF a = Inf \/ b = Inf THEN Inf ELSE a + b

RECURSIVE Reverso(_)
Reverso(s) == IF s = << >> THEN << >> ELSE Append(Reverso(Tail(s)), Head(s))

Get(d, k, def) == IF k \in DOMAIN d THEN d[k] ELSE def

\* the same function, built once as a table (the model checker would
\* otherwise recompute a function's body at every lookup)
Tabla(f) == f @@ << >>

\* a local variable: valor is computed once and named inside Cuerpo
Sea(valor, Cuerpo(_)) == Cuerpo(valor)

\* the same with valor computed before the body is entered
Evaluado(valor, Cuerpo(_)) == CHOOSE r \in {Cuerpo(x) : x \in {valor}} : TRUE

\* -------------------------------------------------------------- graphs ---
\* Undirected ring 0 - 1 - ... - (NumNodos-1) - 0 plus chords from node 0;
\* ws[i] is the weight of the i-th edge, 0 meaning that the edge is absent.
AristasAnillo == [i \in Nodos |-> <<i, (i + 1) % NumNodos>>]
Cuerdas == <<<<0, 2>>>>
NumCuerdas == Len(Cuerdas)

PesoEntre(ws, cs, a, b) ==
    LET enAnillo == {i \in Nodos : AristasAnillo[i] \in {<<a, b>>, <<b, a>>}}
        enCuerda == {i \in 1 .. NumCuerdas : Cuerdas[i] \in {<<a, b>>, <<b, a>>}}
    IN IF enAnillo # {} THEN ws[MinDe(enAnillo)]
       ELSE IF enCuerda # {} THEN cs[MinDe(enCuerda)]
       ELSE 0

GrafoDe(ws, cs) ==
    [a \in Nodos |->
        [b \in {x \in Nodos : x # a /\ PesoEntre(ws, cs, a, x) > 0} |->
            PesoEntre(ws, cs, a, b)]]

SinCuerdas == [i \in 1 .. NumCuerdas |-> 0]

\* the street 0 - 1 - ... - (NumNodos-1), weights 1 and 3 in turn
GrafoLinea ==
    GrafoDe([i \in Nodos |-> IF i = NumNodos - 1 THEN 0
                             ELSE IF i % 2 = 0 THEN 1 ELSE 3], SinCuerdas)

\* every ring-with-chords graph, edges possibly absent (unreachable pairs)
GrafosDijkstra ==
    {GrafoDe(ws, cs) : ws \in [Nodos -> Pesos \cup {0}],
                       cs \in [1 .. NumCuerdas -> Pesos \cup {0}]}

\* connected rings: every pairwise distance is finite
GrafosAnillo == {GrafoDe(ws, SinCuerdas) : ws \in [Nodos -> Pesos]}

VARIABLES
    grafo,                      \* CalculadorRutas.grafo / GestorRutas.grafo
    factor_trafico,             \* CalculadorRutas.factor_trafico
    matriz_distancias,          \* CalculadorRutas.matriz_distancias
    precalculado,               \* CalculadorRutas.precalculado
    viveros,                    \* GestorRutas.viveros: id -> Vivero
    vivero_actual,              \* the active Vivero object, or NoneVal
    pedido_actual,              \* the destinos of the current Pedido, or Nada
    ruta_actual,                \* the stored Ruta, or Ninguno
    contador_destinos,          \* GestorRutas.contador_destinos
    viveros_seleccionados_ids,  \* GestorRutas.viveros_seleccionados_ids
    validacion_por_simulacion,  \* GestorRutas.validacion_por_simulacion
    asignaciones_reabastecimiento, \* stored assignment, or Nada
    pc,                         \* position of the driver of a pure function
    args,                       \* the inputs drawn for it; in a session of the
                                \* manager, those of the last agregar_destino
    ret                         \* the last call and what it returned

calc == <<matriz_distancias, precalculado>>
gestor == <<viveros, vivero_actual, pedido_actual, ruta_actual, contador_destinos,
            viveros_seleccionados_ids, validacion_por_simulacion,
            asignaciones_reabastecimiento>>
vars == <<grafo, factor_trafico, calc, gestor, pc, args, ret>>

\* ------------------------------------------------------------ dijkstra ---
\* mutant of HeapMin: the largest entry is popped
HeapMin_Mayor(heap) ==
    CHOOSE t \in heap : \A u \in heap :
        t[1] > u[1] \/ (t[1] = u[1] /\ t[2] >= u[2])

\* heapq pops the smallest (dist, node) tuple
HeapMin(heap) ==
    CHOOSE t \in heap : \A u \in heap :
        t[1] < u[1] \/ (t[1] = u[1] /\ t[2] <= u[2])

RECURSIVE DijkstraLoop(_, _, _, _, _, _, _)
DijkstraLoop(g, f, destino, distancias, padres, visitados, heap) ==
    IF heap = {} THEN [distancias |-> distancias, padres |-> padres]
    ELSE
      LET top == HeapMin(heap)
          resto == heap \ {top}
          dist_actual == top[1]
          actual == top[2]
      IN IF actual \in visitados
           THEN DijkstraLoop(g, f, destino, distancias, padres, visitados, resto)
         ELSE IF actual = destino
           THEN [distancias |-> distancias, padres |-> padres]
         ELSE IF dist_actual > distancias[actual]
           THEN DijkstraLoop(g, f, destino, distancias, padres,
                             visitados \cup {actual}, resto)
         ELSE
           LET vecinos == DOMAIN g[actual]
               nueva(v) == Suma(distancias[actual], g[actual][v] * f)
               mejora == {v \in vecinos : nueva(v) < distancias[v]}
               distancias2 == [n \in DOMAIN distancias |->
                                 IF n \in mejora THEN nueva(n) ELSE distancias[n]]
               padres2 == [n \in DOMAIN padres |->
                                 IF n \in mejora THEN actual ELSE padres[n]]
               heap2 == resto \cup {<<nueva(v), v>> : v \in mejora}
           IN DijkstraLoop(g, f, destino, distancias2, padres2,
                           visitados \cup {actual}, heap2)

\* mutant of Backtrack: the loop runs `while actual:`, so that it also stops
\* at the node 0
RECURSIVE Backtrack_HastaFalso(_, _)
Backtrack_HastaFalso(padres, actual) ==
    IF actual = NoneVal \/ actual = 0 THEN << >>
    ELSE <<actual>> \o Backtrack_HastaFalso(padres, padres[actual])

RECURSIVE Backtrack(_, _)
Backtrack(padres, actual) ==
    IF actual = NoneVal THEN << >>
    ELSE <<actual>> \o Backtrack(padres, padres[actual])

\* mutant of Dijkstra: the test of lines 89-90 is left out
Dijkstra_SinPrueba(g, f, origen, destino) ==
    IF origen \notin DOMAIN g \/ destino \notin DOMAIN g
      THEN [dist |-> Inf, camino |-> << >>]
    ELSE
      LET fin == DijkstraLoop(g, f, destino,
                     [n \in DOMAIN g |-> IF n = origen THEN 0 ELSE Inf],
                     [n \in DOMAIN g |-> NoneVal],
                     {}, {<<0, origen>>})
      IN [dist |-> fin.distancias[destino],
          camino |-> Reverso(Backtrack(fin.padres, destino))]

Dijkstra(g, f, origen, destino) ==
    IF origen \notin DOMAIN g \/ destino \notin DOMAIN g
      THEN [dist |-> Inf, camino |-> << >>]
    ELSE
      LET fin == DijkstraLoop(g, f, destino,
                     [n \in DOMAIN g |-> IF n = origen THEN 0 ELSE Inf],
                     [n \in DOMAIN g |-> NoneVal],
                     {}, {<<0, origen>>})
      IN IF fin.distancias[destino] = Inf
           THEN [dist |-> Inf, camino |-> << >>]
           ELSE [dist |-> fin.distancias[destino],
                 camino |-> Reverso(Backtrack(fin.padres, destino))]

\* ----------------------------------------------------- distance matrix ---
PrecalcularMatriz(g, f, nodos_interes) ==
    Tabla([p \in Rango(nodos_interes) \X Rango(nodos_interes) |->
              IF p[1] # p[2] THEN Dijkstra(g, f, p[1], p[2]).dist ELSE 0])

MatGet(m, i, j) == Get(m, <<i, j>>, Inf)

\* ----------------------------------------------------------- held-karp ---
\* itertools.combinations(lista, k): the strictly increasing index tuples of
\* length k over 1 .. n, in lexicographic order
RECURSIVE Combinaciones(_, _, _)
Combinaciones(n, k, desde) ==
    IF k = 0 THEN << << >> >>
    ELSE IF desde > n THEN << >>
    ELSE LET con == Combinaciones(n, k - 1, desde + 1)
             sin == Combinaciones(n, k, desde + 1)
         IN [i \in 1 .. Len(con) |-> <<desde>> \o con[i]] \o sin

\* mutant of MejorPrevio: the first penultimo is kept, whatever its cost
MejorPrevio_Primero(dp, m, subconjunto, ultimo) ==
    LET prev == subconjunto \ {ultimo}
        cands == {p \in prev : <<prev, p>> \in DOMAIN dp}
        total(p) == Suma(dp[<<prev, p>>][1], MatGet(m, p, ultimo))
        finitos == {p \in cands : total(p) < Inf}
    IN IF finitos = {} THEN <<Inf, NoneVal>>
       ELSE <<total(MinDe(finitos)), MinDe(finitos)>>

\* the inner loop over penultimo (lines 179-198); a frozenset of small ints
\* is iterated in ascending order, and only a strictly smaller total replaces
\* the incumbent, so the smallest minimiser is kept
MejorPrevio(dp, m, subconjunto, ultimo) ==
    LET prev == subconjunto \ {ultimo}
        cands == {p \in prev : <<prev, p>> \in DOMAIN dp}
        total(p) == Suma(dp[<<prev, p>>][1], MatGet(m, p, ultimo))
        finitos == {p \in cands : total(p) < Inf}
    IN IF finitos = {} THEN <<Inf, NoneVal>>
       ELSE LET mejor_dist == MinDe({total(p) : p \in finitos})
            IN <<mejor_dist, MinDe({p \in finitos : total(p) = mejor_dist})>>

\* one subconjunto of the table-building loop: every ultimo of it is written
ActualizarDP(dp, m, subconjunto) ==
    Tabla([k \in DOMAIN dp \cup {<<subconjunto, u>> : u \in subconjunto} |->
              IF k[1] = subconjunto /\ k[2] \in subconjunto
                THEN MejorPrevio(dp, m, subconjunto, k[2])
                ELSE dp[k]])

RECURSIVE LlenarDP(_, _, _, _, _)
LlenarDP(dp, m, destinos, combs, i) ==
    IF i > Len(combs) THEN dp
    ELSE Evaluado(ActualizarDP(dp, m, {destinos[j] : j \in Rango(combs[i])}),
                  LAMBDA nuevo : LlenarDP(nuevo, m, destinos, combs, i + 1))

RECURSIVE TablaDP(_, _, _, _)
TablaDP(dp, m, destinos, tamano) ==
    IF tamano > Len(destinos) THEN dp
    ELSE Evaluado(LlenarDP(dp, m, destinos,
                           Combinaciones(Len(destinos), tamano, 1), 1),
                  LAMBDA nuevo : TablaDP(nuevo, m, destinos, tamano + 1))

CasoBase(m, origen, destinos) ==
    Tabla([k \in {<<{d}, d>> : d \in Rango(destinos)} |->
              <<MatGet(m, origen, k[2]), origen>>])

\* lines 200-210: the first stop of the list, in list order, whose full-set
\* entry has the smallest finite distance; NoneVal when every entry is Inf
MejorUltimo(dp, destinos) ==
    LET todos == Rango(destinos)
        costo(i) == Get(dp, <<todos, destinos[i]>>, <<Inf, NoneVal>>)[1]
        finitos == {i \in DOMAIN destinos : costo(i) < Inf}
    IN IF finitos = {} THEN NoneVal
       ELSE LET mejor == MinDe({costo(i) : i \in finitos})
            IN destinos[MinDe({i \in finitos : costo(i) = mejor})]

\* lines 217-226: follow the stored predecessors down to a singleton
RECURSIVE Reconstruir(_, _, _)
Reconstruir(dp, subconjunto, nodo) ==
    IF Cardinality(subconjunto) <= 1 \/ <<subconjunto, nodo>> \notin DOMAIN dp
      THEN <<nodo>>
      ELSE <<nodo>> \o Reconstruir(dp, subconjunto \ {nodo}, dp[<<subconjunto, nodo>>][2])

\* held_karp on a calculator whose matrix is m (the precalculado test of
\* lines 147-150 is made by the caller operators below)
HeldKarpSobre(m, origen, destinos, retornar_origen) ==
    IF destinos = << >> THEN [dist |-> 0, secuencia |-> <<origen>>]
    ELSE
      Evaluado(TablaDP(CasoBase(m, origen, destinos), m, destinos, 2), LAMBDA dp :
        LET mejor_ultimo == MejorUltimo(dp, destinos)
        IN IF mejor_ultimo = NoneVal
             THEN [dist |-> Inf, secuencia |-> <<origen>>]
             ELSE
               LET abierta == dp[<<Rango(destinos), mejor_ultimo>>][1]
                   sec == <<origen>> \o
                          Reverso(Reconstruir(dp, Rango(destinos), mejor_ultimo))
               IN IF retornar_origen
                    THEN [dist |-> Suma(abierta, MatGet(m, mejor_ultimo, origen)),
                          secuencia |-> Append(sec, origen)]
                    ELSE [dist |-> abierta, secuencia |-> sec])

\* the matrix held_karp works on: computed over origin and stops on first
\* use, kept as it is once precalculado is set
MatrizParaHeldKarp(g, f, m, pre, origen, destinos) ==
    IF destinos # << >> /\ ~pre
      THEN PrecalcularMatriz(g, f, <<origen>> \o destinos)
      ELSE m

HeldKarp(g, f, m, pre, origen, destinos, retornar_origen) ==
    HeldKarpSobre(MatrizParaHeldKarp(g, f, m, pre, origen, destinos),
                  origen, destinos, retornar_origen)

\* mutant of CalcularRutaTsp: with one stop the return leg is counted but
\* the origin is not appended
CalcularRutaTsp_SinCierre(g, f, m, pre, origen, destinos, retornar_origen) ==
    IF Len(destinos) = 0 THEN [dist |-> 0, secuencia |-> <<origen>>]
    ELSE IF Len(destinos) = 1 THEN
      LET ida == MatGet(m, origen, destinos[1])
      IN IF retornar_origen
           THEN [dist |-> Suma(ida, MatGet(m, destinos[1], origen)),
                 secuencia |-> <<origen, destinos[1]>>]
           ELSE [dist |-> ida, secuencia |-> <<origen, destinos[1]>>]
    ELSE HeldKarp(g, f, m, pre, origen, destinos, retornar_origen)

CalcularRutaTsp(g, f, m, pre, origen, destinos, retornar_origen) ==
    IF Len(destinos) = 0 THEN [dist |-> 0, secuencia |-> <<origen>>]
    ELSE IF Len(destinos) = 1 THEN
      LET ida == MatGet(m, origen, destinos[1])
      IN IF retornar_origen
           THEN [dist |-> Suma(ida, MatGet(m, destinos[1], origen)),
                 secuencia |-> <<origen, destinos[1], origen>>]
           ELSE [dist |-> ida, secuencia |-> <<origen, destinos[1]>>]
    ELSE HeldKarp(g, f, m, pre, origen, destinos, retornar_origen)

\* calcular_ruta_tsp reaches held_karp only with two or more stops
MatrizTrasTsp(g, f, m, pre, origen, destinos) ==
    IF Len(destinos) >= 2 THEN MatrizParaHeldKarp(g, f, m, pre, origen, destinos)
    ELSE m

\* -------------------------------------------------------- path expansion ---
\* error is TRUE where the code raises ValueError (a segment with no path)
RECURSIVE CaminoDesde(_, _, _, _, _, _)
CaminoDesde(g, f, secuencia, i, camino, distancia) ==
    IF i > Len(secuencia) - 1
      THEN [error |-> FALSE, camino |-> camino, distancia |-> distancia]
    ELSE
      LET seg == Dijkstra(g, f, secuencia[i], secuencia[i + 1])
      IN IF seg.camino = << >>
           THEN [error |-> TRUE, camino |-> << >>, distancia |-> 0]
           ELSE CaminoDesde(g, f, secuencia, i + 1,
                            IF camino # << >> THEN camino \o Tail(seg.camino)
                                              ELSE seg.camino,
                            Suma(distancia, seg.dist))

CalcularCaminoCompleto(g, f, secuencia) ==
    CaminoDesde(g, f, secuencia, 1, << >>, 0)

\* =========================================================== gestor ===
Flores == {"rosas"}
ViveroIds == {1, 2}
ViveroDesconocido == 9         \* an id that is never registered

\* ValidadorRutas, coordinates in tenths of a degree
LAT_MIN == -123
LAT_MAX == -117
LON_MIN == -772
LON_MAX == -768
MIN_DESTINOS == 1
MAX_DESTINOS == 20

ValidarFormatoCoordenadas(lat, lon) ==
    /\ -900 <= lat /\ lat <= 900
    /\ -1800 <= lon /\ lon <= 1800

ValidarRangoGeograficoLima(lat, lon) ==
    /\ ValidarFormatoCoordenadas(lat, lon)
    /\ LAT_MIN <= lat /\ lat <= LAT_MAX
    /\ LON_MIN <= lon /\ lon <= LON_MAX

\* mutant of ValidarCantidadDestinos: the upper bound is not tested
ValidarCantidadDestinos_SinTope(cantidad) ==
    cantidad >= MIN_DESTINOS

ValidarCantidadDestinos(cantidad) ==
    cantidad >= MIN_DESTINOS /\ cantidad <= MAX_DESTINOS

ValidarNodoExiste(nodo_id, g) == nodo_id \in DOMAIN g

ValidarCapacidadEntrega(cantidad_destinos, capacidad_maxima) ==
    ~(cantidad_destinos > capacidad_maxima)

\* Destino.validar_coordenadas
ValidarCoordenadas(lat, lon) ==
    -123 <= lat /\ lat <= -117 /\ -772 <= lon /\ lon <= -768

\* Pedido.validar_rango
ValidarRango(destinos) == 1 <= Len(destinos) /\ Len(destinos) <= 20

\* Pedido.agregar_destino: TRUE when the destination is appended
PedidoAcepta(destinos, lat, lon) ==
    ~(Len(destinos) >= 20) /\ ValidarCoordenadas(lat, lon)

PedidoSin_Primero(destinos, destino_id) ==
    IF \A i \in DOMAIN destinos : destinos[i].destino_id # destino_id THEN destinos
    ELSE Tail(destinos)

\* Pedido.eliminar_destino: the first destination with that id is removed
PedidoSin(destinos, destino_id) ==
    LET hits == {i \in DOMAIN destinos : destinos[i].destino_id = destino_id}
    IN IF hits = {} THEN destinos
       ELSE LET i == MinDe(hits)
            IN SubSeq(destinos, 1, i - 1) \o SubSeq(destinos, i + 1, Len(destinos))

\* Inventario.reducir_stock
ReducirStock(stock, consumos) ==
    [f \in DOMAIN stock |->
        IF f \in DOMAIN consumos
          THEN (IF stock[f] - consumos[f] > 0 THEN stock[f] - consumos[f] ELSE 0)
          ELSE stock[f]]

\* GestorRutas is built without nodos_coords (the constructor's default)
nodos_coords == << >>

\* _buscar_nodo_cercano: the nearest node that has coordinates, the first
\* key of the graph when none has
BuscarNodoCercano(g, lat, lon) ==
    LET conCoords == {n \in DOMAIN g : n \in DOMAIN nodos_coords}
        d2(n) == (lat - nodos_coords[n][1]) * (lat - nodos_coords[n][1])
                 + (lon - nodos_coords[n][2]) * (lon - nodos_coords[n][2])
    IN IF conCoords = {} THEN MinDe(DOMAIN g)
       ELSE MinDe({n \in conCoords : \A k \in conCoords : d2(n) <= d2(k)})

\* lines 114-117 and 328-331: the active origin, then the selected suppliers
RECURSIVE AgregarSeleccionados(_, _, _, _)
AgregarSeleccionados(vs, sel, i, lista) ==
    IF i > Len(sel) THEN lista
    ELSE AgregarSeleccionados(vs, sel, i + 1,
            IF sel[i] # lista[1] /\ sel[i] \in DOMAIN vs /\ sel[i] \notin Rango(lista)
              THEN Append(lista, sel[i]) ELSE lista)

\* mutant of SupplierIds: the selected suppliers are left out
SupplierIds_SoloOrigen(vs, actual, sel) == <<actual>>

SupplierIds(vs, actual, sel) == AgregarSeleccionados(vs, sel, 1, <<actual>>)

RECURSIVE SumaSobre(_, _, _)
\* sum of val[i] for the positions i >= desde of a sequence
SumaSobre(val, desde, hasta) ==
    IF desde > hasta THEN 0 ELSE val[desde] + SumaSobre(val, desde + 1, hasta)

SumaLista(val) == SumaSobre(val, 1, Len(val))

\* lines 135-140 and 545-548
DemandaTotal(destinos, flor) ==
    SumaLista([i \in 1 .. Len(destinos) |-> destinos[i].flores_requeridas[flor]])

\* mutant of StockAcumulado: every supplier is counted with one flower more
StockAcumulado_ConUnaMas(vs, supplier_ids, flor) ==
    SumaLista([i \in 1 .. Len(supplier_ids) |-> vs[supplier_ids[i]].stock[flor] + 1])

\* lines 143-149
StockAcumulado(vs, supplier_ids, flor) ==
    SumaLista([i \in 1 .. Len(supplier_ids) |->
                  IF vs[supplier_ids[i]].stock[flor] > 0
                    THEN vs[supplier_ids[i]].stock[flor] ELSE 0])

\* lines 120-124
CapacidadTotal(vs, supplier_ids) ==
    SumaLista([i \in 1 .. Len(supplier_ids) |-> vs[supplier_ids[i]].capacidad_entrega])

\* ------------------------------------- _simular_entregas_con_reabastecimiento
\* lines 536-539
NodoProveedor(g, v) ==
    IF v.nodo_id \in {NoneVal, -1} THEN BuscarNodoCercano(g, v.lat, v.lon)
    ELSE v.nodo_id

\* lines 567-578: the subset's combined stock covers the total demand
Cubre(vs, comb, destinos) ==
    \A f \in Flores :
        ~(SumaLista([i \in 1 .. Len(comb) |-> vs[comb[i]].stock[f]])
            < DemandaTotal(destinos, f))

\* line 583 and 622: the nodes of the matrix for one subset
NodosInteresDe(g, vs, comb, destinos) ==
    LET onode == NodoProveedor(g, vs[comb[1]])
        provs == [i \in 1 .. Len(comb) |-> NodoProveedor(g, vs[comb[i]])]
    IN <<onode>> \o SelectSeq(provs, LAMBDA n : n # onode)
               \o [i \in 1 .. Len(destinos) |-> destinos[i].nodo_id]

\* lines 585-617, with nodos_coords empty: a node resolves to the
\* coordinates of the first supplier registered on it
RaizEntera(x) == CHOOSE r \in 0 .. x : r * r <= x /\ (r + 1) * (r + 1) > x

CosteAproximado(vs, path_nodes) ==
    LET resuelve(n) == n \notin {NoneVal, -1} /\ \E vid \in DOMAIN vs : vs[vid].nodo_id = n
        coordsDe(n) == LET vid == MinDe({v \in DOMAIN vs : vs[v].nodo_id = n})
                       IN <<vs[vid].lat, vs[vid].lon>>
        coords == LET ns == SelectSeq(path_nodes, resuelve)
                  IN [i \in 1 .. Len(ns) |-> coordsDe(ns[i])]
    IN IF Len(coords) < 2 THEN Inf
       ELSE SumaLista([i \in 1 .. (Len(coords) - 1) |->
               RaizEntera((coords[i][1] - coords[i + 1][1]) * (coords[i][1] - coords[i + 1][1])
                        + (coords[i][2] - coords[i + 1][2]) * (coords[i][2] - coords[i + 1][2]))])

\* lines 581-641: the estimated cost of one feasible subset (comb[1] is the
\* origin: combinations keeps list order and every kept subset contains it)
CosteSubconjunto(g, f, vs, comb, destinos) ==
    LET onode == NodoProveedor(g, vs[comb[1]])
        provs == [i \in 1 .. Len(comb) |-> NodoProveedor(g, vs[comb[i]])]
        dnodos == [i \in 1 .. Len(destinos) |-> destinos[i].nodo_id]
        valido(n) == n \notin {NoneVal, -1}
    IN Evaluado(PrecalcularMatriz(g, f,
                    SelectSeq(NodosInteresDe(g, vs, comb, destinos), valido)),
         LAMBDA matriz :
           Sea(CalcularCaminoCompleto(g, f,
                  CalcularRutaTsp(g, f, matriz, TRUE, onode,
                      SelectSeq(provs, valido) \o dnodos, FALSE).secuencia),
               LAMBDA cc : IF cc.error
                             THEN CosteAproximado(vs, <<onode>> \o provs \o dnodos)
                             ELSE cc.distancia))

\* lines 562-649: the subsets of one size that contain the origin and cover
\* the demand, in the order of itertools.combinations
Factibles(vs, supplier_ids, destinos, r) ==
    LET combs == Combinaciones(Len(supplier_ids), r, 1)
        comoIds == [i \in 1 .. Len(combs) |->
                      [j \in 1 .. Len(combs[i]) |-> supplier_ids[combs[i][j]]]]
    IN SelectSeq(comoIds,
                 LAMBDA c : supplier_ids[1] \in Rango(c) /\ Cubre(vs, c, destinos))

\* the first subset of least cost among those whose cost could be estimated
MejorDe(g, f, vs, cands, destinos) ==
    Sea(Tabla([i \in 1 .. Len(cands) |-> CosteSubconjunto(g, f, vs, cands[i], destinos)]),
        LAMBDA coste :
            LET validos == {i \in 1 .. Len(cands) : coste[i] < Inf}
            IN IF validos = {} THEN Nada
               ELSE cands[MinDe({i \in validos : \A k \in validos : coste[i] <= coste[k]})])

\* lines 562-649: sizes in ascending order, stopping at the first size that
\* gives a subset; ultimo is the last subset whose cost was computed (its
\* matrix is the one the calculator is left with), Nada when there was none
RECURSIVE MejorSubconjunto(_, _, _, _, _, _, _)
MejorSubconjunto(g, f, vs, supplier_ids, destinos, r, ultimo) ==
    IF r > Len(supplier_ids) THEN [mejor |-> Nada, ultimo |-> ultimo]
    ELSE Sea(Factibles(vs, supplier_ids, destinos, r), LAMBDA cands :
           Sea(MejorDe(g, f, vs, cands, destinos), LAMBDA mejor :
             IF mejor # Nada
               THEN [mejor |-> mejor, ultimo |-> cands[Len(cands)]]
               ELSE MejorSubconjunto(g, f, vs, supplier_ids, destinos, r + 1,
                        IF cands = << >> THEN ultimo ELSE cands[Len(cands)])))

\* lines 664-673: the suppliers of the subset by distance to the destination,
\* ties by supplier id
OrdenProveedores(g, f, vs, subconjunto, nodo_destino) ==
    Sea(Tabla([sid \in Rango(subconjunto) |->
                  Dijkstra(g, f, NodoProveedor(g, vs[sid]), nodo_destino).dist]),
        LAMBDA dcost :
            LET antes(a, b) == dcost[a] < dcost[b] \/ (dcost[a] = dcost[b] /\ a < b)
            IN [i \in 1 .. Len(subconjunto) |->
                  CHOOSE sid \in Rango(subconjunto) :
                      Cardinality({o \in Rango(subconjunto) : antes(o, sid)}) = i - 1])

\* mutant of Tomar: the whole remaining need is taken from the first supplier
\* that has any stock
Tomar_SinTope(avail, remaining) ==
    IF avail <= 0 THEN 0 ELSE remaining

\* mutant of Tomar: a supplier with stock gives all of it, needed or not
Tomar_TodoElStock(avail, remaining) ==
    IF avail <= 0 THEN 0 ELSE avail

\* lines 679-684: what one supplier gives for one flower
Tomar(avail, remaining) ==
    IF avail <= 0 THEN 0
    ELSE IF avail < remaining THEN avail ELSE remaining

\* lines 676-690 for one flower: the quantities taken along the order
RECURSIVE RepartoFlor(_, _, _, _, _)
RepartoFlor(orden, i, stocks, flor, remaining) ==
    IF i > Len(orden) \/ remaining <= 0
      THEN [tomas |-> << >>, remaining |-> remaining]
      ELSE LET take == Tomar(stocks[orden[i]][flor], remaining)
               resto == RepartoFlor(orden, i + 1, stocks, flor, remaining - take)
           IN [tomas |-> (orden[i] :> take) @@ resto.tomas,
               remaining |-> resto.remaining]

\* lines 661-693: the destinations in list order over the mutable stocks
RECURSIVE Asignar(_, _, _, _, _, _, _)
Asignar(g, f, vs, subconjunto, destinos, i, stocks) ==
    IF i > Len(destinos) THEN [ok |-> TRUE, asignaciones |-> << >>]
    ELSE
      Sea(Tabla([fl \in Flores |->
                   RepartoFlor(OrdenProveedores(g, f, vs, subconjunto, destinos[i].nodo_id),
                               1, stocks, fl, destinos[i].flores_requeridas[fl])]),
          LAMBDA rep :
            LET toma(sid, fl) == Get(rep[fl].tomas, sid, 0)
                usados == {sid \in Rango(subconjunto) : \E fl \in Flores : toma(sid, fl) > 0}
                stocks2 == Tabla([sid \in DOMAIN stocks |->
                                    [fl \in Flores |-> stocks[sid][fl] - toma(sid, fl)]])
            IN IF \E fl \in Flores : rep[fl].remaining > 0
                 THEN [ok |-> FALSE, asignaciones |-> << >>]
                 ELSE Sea(Asignar(g, f, vs, subconjunto, destinos, i + 1, stocks2),
                          LAMBDA resto :
                            IF ~resto.ok THEN resto
                            ELSE [ok |-> TRUE,
                                  asignaciones |->
                                    (destinos[i].destino_id :>
                                       Tabla([sid \in usados |->
                                                [fl \in {x \in Flores : toma(sid, x) > 0} |->
                                                    toma(sid, fl)]]))
                                    @@ resto.asignaciones]))

\* the simulation once the subset search has ended
SimularCon(g, f, vs, destinos, busqueda) ==
    IF busqueda.mejor = Nada
      THEN [ok |-> FALSE, motivo |-> "sin_subconjunto", asignaciones |-> Nada,
            subconjunto |-> Nada, ultimo |-> busqueda.ultimo]
      ELSE Sea(Asignar(g, f, vs, busqueda.mejor, destinos, 1,
                       [sid \in Rango(busqueda.mejor) |-> vs[sid].stock]),
               LAMBDA a :
                 IF a.ok
                   THEN [ok |-> TRUE, motivo |-> "", asignaciones |-> a.asignaciones,
                         subconjunto |-> busqueda.mejor, ultimo |-> busqueda.ultimo]
                   ELSE [ok |-> FALSE, motivo |-> "asignacion_fallida",
                         asignaciones |-> Nada, subconjunto |-> busqueda.mejor,
                         ultimo |-> busqueda.ultimo])

SimularEntregasConReabastecimiento(g, f, vs, destinos, supplier_ids) ==
    SimularCon(g, f, vs, destinos,
               MejorSubconjunto(g, f, vs, supplier_ids, destinos, 1, Nada))

\* line 619: the matrix the calculator is left with after a simulation s
MatrizTrasSimular(g, f, m, vs, destinos, s) ==
    IF s.ultimo = Nada THEN m
    ELSE PrecalcularMatriz(g, f,
            SelectSeq(NodosInteresDe(g, vs, s.ultimo, destinos),
                      LAMBDA n : n \notin {NoneVal, -1}))

\* ------------------------------------------------------ agregar_destino ---
\* `return False, error` before anything was built: nothing has changed
Rechazo(motivo, vs, pedido, asig, contador) ==
    [ok |-> FALSE, motivo |-> motivo, viveros |-> vs, pedido |-> pedido,
     asignaciones |-> asig, contador |-> contador,
     consumos |-> << >>, stock_antes |-> << >>, entregador |-> NoneVal]

\* mutant of RechazoSimulacion: the destination was appended to the order
\* before the simulation ran and is still there when it fails
RechazoSimulacion_ConDestino(vs, pedido, destino, asig, contador) ==
    Rechazo("simulacion", vs, Append(pedido, destino), asig, contador)

\* lines 182-183: the simulation failed; the Destino object built at lines
\* 170-177 is dropped, only the counter keeps its increment
RechazoSimulacion(vs, pedido, destino, asig, contador) ==
    Rechazo("simulacion", vs, pedido, asig, contador)

\* lines 203-207: every supplier of the allocation gives its part
ViverosTrasConsumo(vs, alloc_for_dest) ==
    [vid \in DOMAIN vs |->
        IF vid \in DOMAIN alloc_for_dest
          THEN [vs[vid] EXCEPT !.stock = ReducirStock(@, alloc_for_dest[vid])]
          ELSE vs[vid]]

Aporta(alloc_for_dest, vid) ==
    vid \in DOMAIN alloc_for_dest /\ \E fl \in DOMAIN alloc_for_dest[vid] :
                                        alloc_for_dest[vid][fl] > 0

\* lines 210-218: the origin if it gave something, else the first supplier
\* of the list that did
EntregadorPorAsignacion(actual, supplier_ids, alloc_for_dest) ==
    IF actual # 0 /\ Aporta(alloc_for_dest, actual) THEN actual
    ELSE LET hits == {i \in DOMAIN supplier_ids : Aporta(alloc_for_dest, supplier_ids[i])}
         IN IF hits = {} THEN NoneVal ELSE supplier_ids[MinDe(hits)]

\* lines 221-229: without an allocation, the origin if it has capacity left,
\* else the first supplier of the list that has
EntregadorPorCapacidad(vs, actual, supplier_ids) ==
    IF actual \in Rango(supplier_ids) /\ vs[actual].capacidad_entrega > 0 THEN actual
    ELSE LET hits == {i \in DOMAIN supplier_ids :
                         vs[supplier_ids[i]].capacidad_entrega > 0}
         IN IF hits = {} THEN NoneVal ELSE supplier_ids[MinDe(hits)]

\* lines 232-235 (`if delivering_vid:` is false for None and for the id 0)
DescontarCapacidad(vs, delivering_vid) ==
    IF delivering_vid # NoneVal /\ delivering_vid # 0 /\ delivering_vid \in DOMAIN vs
      THEN [vs EXCEPT ![delivering_vid].capacidad_entrega = IF @ - 1 > 0 THEN @ - 1 ELSE 0]
      ELSE vs

\* a dict is truthy when it is not None and not empty
HayAsignaciones(asig) == asig # Nada /\ DOMAIN asig # {}

\* lines 194-241, once the destination passed every check
Aceptar(vs, actual, pedido, supplier_ids, destino, lat, lon, asignaciones, asig_guardadas) ==
    IF ~PedidoAcepta(pedido, lat, lon)
      THEN Rechazo("pedido", vs, pedido, asig_guardadas, destino.destino_id)
    ELSE
      LET alloc_for_dest == IF HayAsignaciones(asignaciones)
                              THEN Get(asignaciones, destino.destino_id, << >>)
                              ELSE << >>
          vs1 == IF HayAsignaciones(asignaciones)
                   THEN ViverosTrasConsumo(vs, alloc_for_dest) ELSE vs
          delivering_vid ==
              IF HayAsignaciones(asignaciones)
                THEN EntregadorPorAsignacion(actual, supplier_ids, alloc_for_dest)
                ELSE EntregadorPorCapacidad(vs1, actual, supplier_ids)
      IN [ok |-> TRUE, motivo |-> "", viveros |-> DescontarCapacidad(vs1, delivering_vid),
          pedido |-> Append(pedido, destino), asignaciones |-> asig_guardadas,
          contador |-> destino.destino_id,
          consumos |-> alloc_for_dest,
          stock_antes |-> [vid \in DOMAIN alloc_for_dest |-> vs[vid].stock],
          entregador |-> delivering_vid]

\* a result of agregar_destino with the matrix the calculator is left with
ConMatriz(r, matriz) == [matriz |-> matriz] @@ r

\* agregar_destino as a function of the manager's state and its arguments
EjecutarAgregarDestino(g, f, m, vs, actual, pedido, sel, sim, asig, contador, lat, lon, flores_requeridas, nodo_in) ==
    IF actual = NoneVal THEN ConMatriz(Rechazo("sin_vivero", vs, pedido, asig, contador), m)
    ELSE IF ~ValidarRangoGeograficoLima(lat, lon)
      THEN ConMatriz(Rechazo("coordenadas", vs, pedido, asig, contador), m)
    ELSE IF pedido = Nada
      THEN ConMatriz(Rechazo("sin_pedido", vs, pedido, asig, contador), m)
    ELSE IF ~ValidarCantidadDestinos(Len(pedido) + 1)
      THEN ConMatriz(Rechazo("cantidad", vs, pedido, asig, contador), m)
    ELSE
      LET supplier_ids == SupplierIds(vs, actual, sel)
          nodo_id == IF nodo_in = NoneVal THEN BuscarNodoCercano(g, lat, lon) ELSE nodo_in
          destino == [destino_id |-> contador + 1, nodo_id |-> nodo_id,
                      flores_requeridas |-> flores_requeridas]
          todos == Append(pedido, destino)
      IN IF ~ValidarCapacidadEntrega(Len(pedido) + 1, CapacidadTotal(vs, supplier_ids))
           THEN ConMatriz(Rechazo("capacidad", vs, pedido, asig, contador), m)
         ELSE IF ~sim /\ \E fl \in Flores :
                   StockAcumulado(vs, supplier_ids, fl) < DemandaTotal(todos, fl)
           THEN ConMatriz(Rechazo("stock", vs, pedido, asig, contador), m)
         ELSE IF ~ValidarNodoExiste(nodo_id, g)
           THEN ConMatriz(Rechazo("nodo", vs, pedido, asig, contador), m)
         ELSE IF sim
           THEN Sea(SimularEntregasConReabastecimiento(g, f, vs, todos, supplier_ids),
                    LAMBDA s :
                      ConMatriz(IF ~s.ok
                                  THEN RechazoSimulacion(vs, pedido, destino, asig,
                                                         contador + 1)
                                  ELSE Aceptar(vs, actual, pedido, supplier_ids, destino,
                                               lat, lon, s.asignaciones, s.asignaciones),
                                MatrizTrasSimular(g, f, m, vs, todos, s)))
           ELSE ConMatriz(Aceptar(vs, actual, pedido, supplier_ids, destino, lat, lon,
                                  Nada, asig), m)

\* ------------------------------------------------- calcular_ruta_optima ---
\* lines 348-361: the nodes of the suppliers named by the assignment, without
\* repetition and without the origin's node (a set of small ints is walked in
\* ascending order)
RECURSIVE NodosDeViveros(_, _, _, _, _)
NodosDeViveros(g, vs, vids, origen_nodo, lista) ==
    IF vids = {} THEN lista
    ELSE LET vid == MinDe(vids)
             nodo == NodoProveedor(g, vs[vid])
         IN NodosDeViveros(g, vs, vids \ {vid}, origen_nodo,
               IF vid \in DOMAIN vs /\ nodo \notin Rango(lista) /\ nodo # origen_nodo
                 THEN Append(lista, nodo) ELSE lista)

ViverosReabastecimiento(asig) ==
    UNION {DOMAIN asig[d] : d \in DOMAIN asig}

\* lines 345-389: the stops handed to the solver
NodosAVisitar(g, vs, asig, origen_nodo, destinos) ==
    LET destinos_nodos == [i \in 1 .. Len(destinos) |-> destinos[i].nodo_id]
    IN IF HayAsignaciones(asig)
         THEN NodosDeViveros(g, vs, ViverosReabastecimiento(asig) \cap DOMAIN vs,
                             origen_nodo, << >>) \o destinos_nodos
         ELSE destinos_nodos

\* lines 326-343: the assignment after the optional re-simulation
AsignacionesParaRuta(g, f, vs, actual, pedido, sel, sim, asig) ==
    IF sim
      THEN Sea(SimularEntregasConReabastecimiento(g, f, vs, pedido,
                                                  SupplierIds(vs, actual, sel)),
               LAMBDA s : IF s.ok THEN s.asignaciones ELSE Nada)
      ELSE asig

\* lines 394-417: the Ruta object (distances in km are kept as fractions)
CrearRuta(m, origen_nodo, secuencia, cc) ==
    [origen_nodo |-> origen_nodo,
     secuencia_visitas |-> secuencia,
     camino_completo |-> cc.camino,
     distancia_total |-> [num |-> cc.distancia, den |-> 1000],
     tiempo_total |-> [num |-> cc.distancia, den |-> 500],
     metricas_segmentos |->
        [i \in 1 .. (Len(secuencia) - 1) |->
            [desde |-> secuencia[i], hasta |-> secuencia[i + 1],
             distancia |-> [num |-> Get(m, <<secuencia[i], secuencia[i + 1]>>, 0),
                            den |-> 1000]]]]

\* lines 392-419: the outcome once the solver has returned; excepcion is TRUE
\* where calcular_camino_completo raises and the call is aborted
ResultadoRuta(sim, asig2, ruta, origen_nodo, m2, tsp, cc) ==
    IF cc.error
      THEN [ok |-> FALSE, excepcion |-> TRUE, motivo |-> "ValueError",
            asignaciones |-> asig2, ruta |-> ruta, matriz |-> m2, tocada |-> TRUE,
            sim_ok |-> (~sim \/ asig2 # Nada)]
      ELSE [ok |-> TRUE, excepcion |-> FALSE, motivo |-> "",
            asignaciones |-> asig2,
            ruta |-> CrearRuta(m2, origen_nodo, tsp.secuencia, cc),
            matriz |-> m2, tocada |-> TRUE,
            sim_ok |-> (~sim \/ asig2 # Nada)]

\* calcular_ruta_optima as a function of the manager's state
EjecutarCalcularRuta(g, f, m, vs, actual, pedido, sel, sim, asig, ruta, retornar_origen) ==
    IF pedido = Nada \/ actual = NoneVal
      THEN [ok |-> FALSE, excepcion |-> FALSE, motivo |-> "sin_pedido",
            asignaciones |-> asig, ruta |-> ruta, matriz |-> m, tocada |-> FALSE,
            sim_ok |-> TRUE]
    ELSE IF ~ValidarRango(pedido)
      THEN [ok |-> FALSE, excepcion |-> FALSE, motivo |-> "rango",
            asignaciones |-> asig, ruta |-> ruta, matriz |-> m, tocada |-> FALSE,
            sim_ok |-> TRUE]
    ELSE
      Sea(AsignacionesParaRuta(g, f, vs, actual, pedido, sel, sim, asig), LAMBDA asig2 :
        Sea(NodosAVisitar(g, vs, asig2, vs[actual].nodo_id, pedido), LAMBDA nodos_a_visitar :
          Sea(PrecalcularMatriz(g, f, <<vs[actual].nodo_id>> \o nodos_a_visitar), LAMBDA m2 :
            Sea(CalcularRutaTsp(g, f, m2, TRUE, vs[actual].nodo_id, nodos_a_visitar,
                                retornar_origen),
                LAMBDA tsp :
                  ResultadoRuta(sim, asig2, ruta, vs[actual].nodo_id, m2, tsp,
                                CalcularCaminoCompleto(g, f, tsp.secuencia))))))

\* ===================================================== specifications ===
\* GestorRutas.__init__ / CalculadorRutas.__init__
CalcInit ==
    /\ matriz_distancias = << >>
    /\ precalculado = FALSE

GestorInit ==
    /\ viveros = << >>
    /\ vivero_actual = NoneVal
    /\ pedido_actual = Nada
    /\ ruta_actual = Ninguno
    /\ contador_destinos = 0
    /\ viveros_seleccionados_ids = << >>
    /\ validacion_por_simulacion = FALSE
    /\ asignaciones_reabastecimiento = Nada

\* ---------------------------------------------- dijkstra on any graph ---
InitDijkstra ==
    /\ grafo \in GrafosDijkstra
    /\ factor_trafico \in Factores
    /\ CalcInit /\ GestorInit
    /\ pc = "inicio"
    /\ args \in [origen : Nodos \cup {NodoAusente}, destino : Nodos \cup {NodoAusente}]
    /\ ret = [op |-> "ninguna"]

LlamarDijkstra ==
    /\ pc = "inicio"
    /\ "destino" \in DOMAIN args
    /\ ret' = [op |-> "dijkstra"] @@ Dijkstra(grafo, factor_trafico, args.origen, args.destino)
    /\ pc' = "fin"
    /\ UNCHANGED <<grafo, factor_trafico, calc, gestor, args>>

NextDijkstra == LlamarDijkstra

SpecDijkstra == InitDijkstra /\ [][NextDijkstra]_vars

\* ------------------------------------------- the solver on ring graphs ---
RECURSIVE ListasDe(_, _)
\* the lists of distinct elements of S of length at most n
ListasDe(S, n) ==
    IF n = 0 THEN {<< >>}
    ELSE LET cortas == ListasDe(S, n - 1)
         IN cortas \cup {Append(l, x) : l \in {c \in cortas : Len(c) = n - 1}, x \in S}

ListasDistintas(S, n) ==
    {l \in ListasDe(S, n) : Cardinality(Rango(l)) = Len(l)}

SinUltimo(l) == IF l = << >> THEN << >> ELSE SubSeq(l, 1, Len(l) - 1)

InitTSP ==
    /\ grafo \in GrafosAnillo
    /\ factor_trafico = 1
    /\ CalcInit /\ GestorInit
    /\ pc = "inicio"
    /\ args \in {a \in [origen : Nodos,
                       destinos : ListasDistintas(Nodos, MaxParadas),
                       retornar_origen : BOOLEAN,
                       propios : BOOLEAN] : a.origen \notin Rango(a.destinos)}
    /\ ret = [op |-> "ninguna"]

\* the node list of the precomputation: origin and stops as the manager
\* passes them, or a list that misses the last stop
NodosInteres(a) ==
    IF a.propios THEN <<a.origen>> \o a.destinos
                 ELSE <<a.origen>> \o SinUltimo(a.destinos)

Precalcular ==
    /\ pc = "inicio"
    /\ matriz_distancias' = PrecalcularMatriz(grafo, factor_trafico, NodosInteres(args))
    /\ precalculado' = TRUE
    /\ pc' = "listo"
    /\ ret' = [op |-> "precalcular_matriz_distancias"]
    /\ UNCHANGED <<grafo, factor_trafico, gestor, args>>

LlamarHeldKarp ==
    /\ pc \in {"inicio", "listo"}
    /\ ret' = [op |-> "held_karp", previo |-> pc] @@
              HeldKarp(grafo, factor_trafico, matriz_distancias, precalculado,
                       args.origen, args.destinos, args.retornar_origen)
    /\ matriz_distancias' = MatrizParaHeldKarp(grafo, factor_trafico, matriz_distancias,
                                precalculado, args.origen, args.destinos)
    /\ precalculado' = (precalculado \/ args.destinos # << >>)
    /\ pc' = "fin"
    /\ UNCHANGED <<grafo, factor_trafico, gestor, args>>

LlamarCalcularRutaTsp ==
    /\ pc \in {"inicio", "listo"}
    /\ ret' = [op |-> "calcular_ruta_tsp", previo |-> pc] @@
              CalcularRutaTsp(grafo, factor_trafico, matriz_distancias, precalculado,
                              args.origen, args.destinos, args.retornar_origen)
    /\ matriz_distancias' = MatrizTrasTsp(grafo, factor_trafico, matriz_distancias,
                                precalculado, args.origen, args.destinos)
    /\ precalculado' = (precalculado \/ Len(args.destinos) >= 2)
    /\ pc' = "fin"
    /\ UNCHANGED <<grafo, factor_trafico, gestor, args>>

NextTSP == Precalcular \/ LlamarHeldKarp \/ LlamarCalcularRutaTsp

SpecTSP == InitTSP /\ [][NextTSP]_vars

\* -------------------------------------------------- the route manager ---
\* The street graph of the manager: the path 0 - 1 - ... - (NumNodos-2) with
\* weights 1, 3, 1, ... and the node NumNodos-1 that no street reaches.
GrafoGestor ==
    LET peso(i) == IF i % 2 = 0 THEN 1 ELSE 3
        vecinos(a) == {b \in Nodos : b < NumNodos - 1 /\ a < NumNodos - 1
                                     /\ (b = a + 1 \/ a = b + 1)}
    IN [a \in Nodos |-> [b \in vecinos(a) |-> peso(MinDe({a, b}))]]

\* The nurseries that may be registered, one per id.
Catalogo ==
    [vid \in ViveroIds |->
        [vivero_id |-> vid, nodo_id |-> vid - 1, lat |-> -120, lon |-> -770,
         stock |-> [fl \in Flores |-> IF vid = 1 THEN MaxDemanda ELSE 1],
         capacidad_entrega |-> IF vid = 1 THEN 3 ELSE 1]]

LatitudesProbadas == {-120, -110}
\* a node on the path (the node of nursery 2), the unreachable node, a node
\* that is not in the graph, and no node at all (the nearest one is searched)
NodosProbados == {1, NumNodos - 1, NodoAusente, NoneVal}
DemandasProbadas == [Flores -> 0 .. MaxDemanda]

\* A session of the manager: the order is built with any interleaving of the
\* calls below, and the route is computed last (pc = "fin" afterwards).
InitGestor ==
    /\ grafo = GrafoGestor
    /\ factor_trafico = 1
    /\ CalcInit /\ GestorInit
    /\ pc = "gestor"
    /\ args = << >>
    /\ ret = [op |-> "ninguna"]

\* registrar_vivero, for an id that is not registered yet
RegistrarVivero(vid) ==
    /\ pc = "gestor"
    /\ vid \notin DOMAIN viveros
    /\ viveros' = Tabla([v \in DOMAIN viveros \cup {vid} |->
                            IF v = vid THEN Catalogo[vid] ELSE viveros[v]])
    /\ ret' = [op |-> "registrar_vivero", ok |-> TRUE]
    /\ UNCHANGED <<grafo, factor_trafico, calc, vivero_actual, pedido_actual,
                   ruta_actual, contador_destinos, viveros_seleccionados_ids,
                   validacion_por_simulacion, asignaciones_reabastecimiento, pc, args>>

\* seleccionar_vivero: the origin is set and a new, empty order is opened
SeleccionarVivero(vivero_id) ==
    /\ pc = "gestor"
    /\ IF vivero_id \notin DOMAIN viveros
         THEN /\ ret' = [op |-> "seleccionar_vivero", ok |-> FALSE]
              /\ UNCHANGED <<vivero_actual, pedido_actual>>
         ELSE /\ vivero_actual' = vivero_id
              /\ pedido_actual' = << >>
              /\ ret' = [op |-> "seleccionar_vivero", ok |-> TRUE]
    /\ UNCHANGED <<grafo, factor_trafico, calc, viveros, ruta_actual, contador_destinos,
                   viveros_seleccionados_ids, validacion_por_simulacion,
                   asignaciones_reabastecimiento, pc, args>>

SetViverosSeleccionados(ids) ==
    /\ pc = "gestor"
    /\ viveros_seleccionados_ids' = SelectSeq(ids, LAMBDA vid : vid \in DOMAIN viveros)
    /\ ret' = [op |-> "set_viveros_seleccionados", ok |-> TRUE]
    /\ UNCHANGED <<grafo, factor_trafico, calc, viveros, vivero_actual, pedido_actual,
                   ruta_actual, contador_destinos, validacion_por_simulacion,
                   asignaciones_reabastecimiento, pc, args>>

SetValidacionPorSimulacion(value) ==
    /\ pc = "gestor"
    /\ validacion_por_simulacion' = value
    /\ ret' = [op |-> "set_validacion_por_simulacion", ok |-> TRUE]
    /\ UNCHANGED <<grafo, factor_trafico, calc, viveros, vivero_actual, pedido_actual,
                   ruta_actual, contador_destinos, viveros_seleccionados_ids,
                   asignaciones_reabastecimiento, pc, args>>

\* agregar_destino, while fewer than tope destination ids were handed out
AgregarDestinoHasta(tope, lat, lon, flores_requeridas, nodo_in) ==
    /\ pc = "gestor"
    /\ contador_destinos < tope
    /\ \E r \in {EjecutarAgregarDestino(grafo, factor_trafico, matriz_distancias, viveros,
                    vivero_actual, pedido_actual, viveros_seleccionados_ids,
                    validacion_por_simulacion, asignaciones_reabastecimiento,
                    contador_destinos, lat, lon, flores_requeridas, nodo_in)} :
          /\ viveros' = r.viveros
          /\ pedido_actual' = r.pedido
          /\ asignaciones_reabastecimiento' = r.asignaciones
          /\ contador_destinos' = r.contador
          /\ matriz_distancias' = r.matriz
          /\ precalculado' = (precalculado \/ r.matriz # matriz_distancias)
          /\ ret' = [op |-> "agregar_destino", ok |-> r.ok, motivo |-> r.motivo,
                     consumos |-> r.consumos, stock_antes |-> r.stock_antes]
    /\ args' = [lat |-> lat, lon |-> lon, flores_requeridas |-> flores_requeridas,
                nodo_id |-> nodo_in]
    /\ UNCHANGED <<grafo, factor_trafico, vivero_actual, ruta_actual,
                   viveros_seleccionados_ids, validacion_por_simulacion, pc>>

AgregarDestino(lat, lon, flores_requeridas, nodo_in) ==
    AgregarDestinoHasta(MaxContador, lat, lon, flores_requeridas, nodo_in)

EliminarDestino(destino_id) ==
    /\ pc = "gestor"
    /\ IF pedido_actual = Nada \/ PedidoSin(pedido_actual, destino_id) = pedido_actual
         THEN /\ ret' = [op |-> "eliminar_destino", ok |-> FALSE,
                          destino_id |-> destino_id]
              /\ UNCHANGED pedido_actual
         ELSE /\ pedido_actual' = PedidoSin(pedido_actual, destino_id)
              /\ ret' = [op |-> "eliminar_destino", ok |-> TRUE,
                          destino_id |-> destino_id]
    /\ UNCHANGED <<grafo, factor_trafico, calc, viveros, vivero_actual, ruta_actual,
                   contador_destinos, viveros_seleccionados_ids,
                   validacion_por_simulacion, asignaciones_reabastecimiento, pc, args>>

CalcularRutaOptima(retornar_origen) ==
    /\ pc = "gestor"
    /\ \E r \in {EjecutarCalcularRuta(grafo, factor_trafico, matriz_distancias, viveros,
                    vivero_actual, pedido_actual, viveros_seleccionados_ids,
                    validacion_por_simulacion, asignaciones_reabastecimiento,
                    ruta_actual, retornar_origen)} :
          /\ asignaciones_reabastecimiento' = r.asignaciones
          /\ ruta_actual' = r.ruta
          /\ matriz_distancias' = r.matriz
          /\ precalculado' = (precalculado \/ r.tocada)
          /\ ret' = [op |-> "calcular_ruta_optima", ok |-> r.ok,
                     excepcion |-> r.excepcion, motivo |-> r.motivo,
                     sim_ok |-> r.sim_ok]
    /\ pc' = "fin"
    /\ UNCHANGED <<grafo, factor_trafico, viveros, vivero_actual, pedido_actual,
                   contador_destinos, viveros_seleccionados_ids,
                   validacion_por_simulacion, args>>

NextGestor ==
    \/ \E vid \in ViveroIds : RegistrarVivero(vid)
    \/ \E vid \in ViveroIds \cup {ViveroDesconocido} : SeleccionarVivero(vid)
    \/ \E ids \in ListasDistintas(ViveroIds \cup {ViveroDesconocido}, 1) :
           SetViverosSeleccionados(ids)
    \/ \E value \in BOOLEAN : SetValidacionPorSimulacion(value)
    \/ \E lat \in LatitudesProbadas, fr \in DemandasProbadas, n \in NodosProbados :
           AgregarDestino(lat, -770, fr, n)
    \/ \E d \in 1 .. MaxContador : EliminarDestino(d)
    \/ \E ro \in BOOLEAN : CalcularRutaOptima(ro)

SpecGestor == InitGestor /\ [][NextGestor]_vars

\* ------------------------------------------ the limit on the order's size ---
\* A nursery built with the constructor's default capacity and stock for more
\* than MAX_DESTINOS destinations, already registered.
ViveroAmplio ==
    [vivero_id |-> 1, nodo_id |-> 0, lat |-> -120, lon |-> -770,
     stock |-> [fl \in Flores |-> MAX_DESTINOS + 2],
     capacidad_entrega |-> 100]

MaxContadorLimite == MAX_DESTINOS + 3

InitLimite ==
    /\ grafo = GrafoGestor
    /\ factor_trafico = 1
    /\ CalcInit
    /\ viveros = (1 :> ViveroAmplio)
    /\ vivero_actual = NoneVal
    /\ pedido_actual = Nada
    /\ ruta_actual = Ninguno
    /\ contador_destinos = 0
    /\ viveros_seleccionados_ids = << >>
    /\ validacion_por_simulacion = FALSE
    /\ asignaciones_reabastecimiento = Nada
    /\ pc = "gestor"
    /\ args = << >>
    /\ ret = [op |-> "ninguna"]

\* calcular_ruta_optima on an order the solver can take within the bounds
CalcularRutaCorta(retornar_origen) ==
    /\ IF pedido_actual = Nada THEN TRUE ELSE Len(pedido_actual) <= MaxParadas
    /\ CalcularRutaOptima(retornar_origen)

NextLimite ==
    \/ SeleccionarVivero(1)
    \/ \E fr \in [Flores -> {1}] : AgregarDestinoHasta(MaxContadorLimite, -120, -770, fr, 1)
    \/ \E d \in 1 .. 2 : EliminarDestino(d)
    \/ \E ro \in BOOLEAN : CalcularRutaCorta(ro)

SpecLimite == InitLimite /\ [][NextLimite]_vars

\* ------------------------------------- the order edited after its route ---
\* calcular_ruta_optima, once, in a session that goes on afterwards
CalcularRutaYSeguir(retornar_origen) ==
    /\ pc = "gestor"
    /\ ruta_actual = Ninguno
    /\ \E r \in {EjecutarCalcularRuta(grafo, factor_trafico, matriz_distancias, viveros,
                    vivero_actual, pedido_actual, viveros_seleccionados_ids,
                    validacion_por_simulacion, asignaciones_reabastecimiento,
                    ruta_actual, retornar_origen)} :
          /\ asignaciones_reabastecimiento' = r.asignaciones
          /\ ruta_actual' = r.ruta
          /\ matriz_distancias' = r.matriz
          /\ precalculado' = (precalculado \/ r.tocada)
          /\ ret' = [op |-> "calcular_ruta_optima", ok |-> r.ok,
                     excepcion |-> r.excepcion, motivo |-> r.motivo,
                     sim_ok |-> r.sim_ok]
    /\ UNCHANGED <<grafo, factor_trafico, viveros, vivero_actual, pedido_actual,
                   contador_destinos, viveros_seleccionados_ids,
                   validacion_por_simulacion, pc, args>>

NextEdicion ==
    \/ \E vid \in ViveroIds : RegistrarVivero(vid)
    \/ \E vid \in ViveroIds : SeleccionarVivero(vid)
    \/ \E value \in BOOLEAN : SetValidacionPorSimulacion(value)
    \/ \E fr \in DemandasProbadas, n \in {1, NoneVal} : AgregarDestino(-120, -770, fr, n)
    \/ \E d \in 1 .. (MaxContador + 1) : EliminarDestino(d)
    \/ \E ro \in BOOLEAN : CalcularRutaYSeguir(ro)

SpecEdicion == InitGestor /\ [][NextEdicion]_vars

\* ------------------------------- one supplier, capacity for a few drops ---
CapacidadJusta == 3

\* the nursery above with a delivery capacity of CapacidadJusta
ViveroJusto == [ViveroAmplio EXCEPT !.capacidad_entrega = CapacidadJusta]

InitCapacidad ==
    /\ grafo = GrafoGestor
    /\ factor_trafico = 1
    /\ CalcInit
    /\ viveros = (1 :> ViveroJusto)
    /\ vivero_actual = NoneVal
    /\ pedido_actual = Nada
    /\ ruta_actual = Ninguno
    /\ contador_destinos = 0
    /\ viveros_seleccionados_ids = << >>
    /\ validacion_por_simulacion = FALSE
    /\ asignaciones_reabastecimiento = Nada
    /\ pc = "gestor"
    /\ args = << >>
    /\ ret = [op |-> "ninguna"]

\* the origin is chosen once, then destinations are added one after another
NextCapacidad ==
    \/ (vivero_actual = NoneVal /\ SeleccionarVivero(1))
    \/ \E fr \in DemandasProbadas, nodo \in {1, 2} :
         AgregarDestinoHasta(CapacidadJusta + 1, -120, -770, fr, nodo)

SpecCapacidad == InitCapacidad /\ [][NextCapacidad]_vars

\* ------------------------------------ the simulation on its own inputs ---
\* _simular_entregas_con_reabastecimiento as a function: three registered
\* nurseries on the nodes 0, 1, 2 of the manager's street graph, any stocks,
\* one or two destinations, and a supplier list that starts with the origin.
ViverosSim == {1, 2, 3}

ViverosDeStock(st) ==
    [vid \in ViverosSim |->
        [vivero_id |-> vid, nodo_id |-> vid - 1, lat |-> -120, lon |-> -770,
         stock |-> [fl \in Flores |-> st[vid]], capacidad_entrega |-> 100]]

DestinosSim ==
    LET uno(i) == [destino_id : {i}, nodo_id : Nodos,
                   flores_requeridas : [Flores -> 1 .. MaxDemanda]]
    IN {<<a>> : a \in uno(1)} \cup {<<a, b>> : a \in uno(1), b \in uno(2)}

InitSimulacion ==
    /\ grafo \in {GrafoGestor, GrafoLinea}
    /\ factor_trafico = 1
    /\ CalcInit
    /\ viveros \in {ViverosDeStock(st) : st \in [ViverosSim -> 0 .. MaxDemanda]}
    /\ vivero_actual = NoneVal
    /\ pedido_actual = Nada
    /\ ruta_actual = Ninguno
    /\ contador_destinos = 0
    /\ viveros_seleccionados_ids = << >>
    /\ validacion_por_simulacion = TRUE
    /\ asignaciones_reabastecimiento = Nada
    /\ pc = "inicio"
    /\ args \in [destinos : DestinosSim,
                  supplier_ids : {l \in ListasDistintas(ViverosSim, 3) : Len(l) >= 2}]
    /\ ret = [op |-> "ninguna"]

LlamarSimular ==
    /\ pc = "inicio"
    /\ \E s \in {SimularEntregasConReabastecimiento(grafo, factor_trafico, viveros,
                                                     args.destinos, args.supplier_ids)} :
          /\ ret' = [op |-> "simular", ok |-> s.ok, motivo |-> s.motivo,
                     asignaciones |-> s.asignaciones, subconjunto |-> s.subconjunto]
          /\ matriz_distancias' = MatrizTrasSimular(grafo, factor_trafico,
                                       matriz_distancias, viveros, args.destinos, s)
          /\ precalculado' = (precalculado \/ s.ultimo # Nada)
    /\ pc' = "fin"
    /\ UNCHANGED <<grafo, factor_trafico, gestor, args>>

NextSimulacion == LlamarSimular

SpecSimulacion == InitSimulacion /\ [][NextSimulacion]_vars

\* ------------------------------------------ path expansion on its own ---
MaxSecuencia == 3

\* every list of at most MaxSecuencia nodes, repeated nodes included
SecuenciasDeNodos ==
    UNION {[1 .. n -> Nodos] : n \in 0 .. MaxSecuencia}

GrafosCamino == GrafosAnillo \cup {GrafoGestor, GrafoLinea}

InitCamino ==
    /\ grafo \in GrafosCamino
    /\ factor_trafico \in Factores
    /\ CalcInit /\ GestorInit
    /\ pc = "inicio"
    /\ args \in [secuencia : SecuenciasDeNodos]
    /\ ret = [op |-> "ninguna"]

LlamarCaminoCompleto ==
    /\ pc = "inicio"
    /\ "secuencia" \in DOMAIN args
    /\ ret' = [op |-> "calcular_camino_completo"] @@
              CalcularCaminoCompleto(grafo, factor_trafico, args.secuencia)
    /\ pc' = "fin"
    /\ UNCHANGED <<grafo, factor_trafico, calc, gestor, args>>

NextCamino == LlamarCaminoCompleto

SpecCamino == InitCamino /\ [][NextCamino]_vars

\* ============================================================ guide ===
\* GeneradorGuiaRuta. Angles and bearings are in hundredths of a degree, and
\* the labels are the source's without their leading symbol.
PorGrado == 100

\* mutant of ClasificarAngulo: the straight bucket leaves its two ends out
ClasificarAngulo_SinExtremos(angulo) ==
    IF -20 * PorGrado < angulo /\ angulo < 20 * PorGrado THEN "Recto"
    ELSE IF 20 * PorGrado < angulo /\ angulo < 70 * PorGrado THEN "Ligera derecha"
    ELSE IF 70 * PorGrado <= angulo /\ angulo <= 110 * PorGrado THEN "Derecha"
    ELSE IF 110 * PorGrado < angulo /\ angulo < 160 * PorGrado THEN "Derecha cerrada"
    ELSE IF -70 * PorGrado < angulo /\ angulo < -20 * PorGrado THEN "Ligera izquierda"
    ELSE IF -110 * PorGrado <= angulo /\ angulo <= -70 * PorGrado THEN "Izquierda"
    ELSE IF -160 * PorGrado < angulo /\ angulo < -110 * PorGrado THEN "Izquierda cerrada"
    ELSE "Retorno"

ClasificarAngulo(angulo) ==
    IF -20 * PorGrado <= angulo /\ angulo <= 20 * PorGrado THEN "Recto"
    ELSE IF 20 * PorGrado < angulo /\ angulo < 70 * PorGrado THEN "Ligera derecha"
    ELSE IF 70 * PorGrado <= angulo /\ angulo <= 110 * PorGrado THEN "Derecha"
    ELSE IF 110 * PorGrado < angulo /\ angulo < 160 * PorGrado THEN "Derecha cerrada"
    ELSE IF -70 * PorGrado < angulo /\ angulo < -20 * PorGrado THEN "Ligera izquierda"
    ELSE IF -110 * PorGrado <= angulo /\ angulo <= -70 * PorGrado THEN "Izquierda"
    ELSE IF -160 * PorGrado < angulo /\ angulo < -110 * PorGrado THEN "Izquierda cerrada"
    ELSE "Retorno"

\* nodos_coords, in tenths of a degree: the first four nodes on the corners
\* of a square, the others without coordinates
NodosCoords ==
    (0 :> <<-120, -770>>) @@ (1 :> <<-120, -769>>) @@
    (2 :> <<-119, -769>>) @@ (3 :> <<-119, -770>>)

\* nodos_coords.get(nodo, (0.0, 0.0))
CoordsDe(coords, nodo) == Get(coords, nodo, <<0, 0>>)

\* calcular_bearing for the points above, as the formula of lines 258-274
\* gives it, rounded to the hundredth of a degree
TablaBearing ==
    [p \in {<<-120, -770>>, <<-120, -769>>, <<-119, -769>>, <<-119, -770>>, <<0, 0>>} |->
       CASE p = <<-120, -770>> ->
              (<<-120, -769>> :> 9001) @@ (<<-119, -769>> :> 4438) @@
              (<<-119, -770>> :> 0) @@ (<<0, 0>> :> 8725)
         [] p = <<-120, -769>> ->
              (<<-120, -770>> :> 26999) @@ (<<-119, -769>> :> 0) @@
              (<<-119, -770>> :> 31562) @@ (<<0, 0>> :> 8723)
         [] p = <<-119, -769>> ->
              (<<-120, -770>> :> 22436) @@ (<<-120, -769>> :> 18000) @@
              (<<-119, -770>> :> 26999) @@ (<<0, 0>> :> 8725)
         [] p = <<-119, -770>> ->
              (<<-120, -770>> :> 18000) @@ (<<-120, -769>> :> 13564) @@
              (<<-119, -769>> :> 9001) @@ (<<0, 0>> :> 8727)
         [] OTHER ->
              (<<-120, -770>> :> 25769) @@ (<<-120, -769>> :> 25769) @@
              (<<-119, -769>> :> 25779) @@ (<<-119, -770>> :> 25780)]

\* atan2(0, 0) is 0: the bearing from a point to itself is 0
CalcularBearing(lat1, lon1, lat2, lon2) ==
    IF <<lat1, lon1>> = <<lat2, lon2>> THEN 0
    ELSE TablaBearing[<<lat1, lon1>>][<<lat2, lon2>>]

\* lines 186-203
CalcularDireccion(coords, nodo_anterior, nodo_actual, nodo_siguiente) ==
    LET c1 == CoordsDe(coords, nodo_anterior)
        c2 == CoordsDe(coords, nodo_actual)
        c3 == CoordsDe(coords, nodo_siguiente)
        bearing1 == CalcularBearing(c1[1], c1[2], c2[1], c2[2])
        bearing2 == CalcularBearing(c2[1], c2[2], c3[1], c3[2])
        angulo == ((bearing2 - bearing1 + 180 * PorGrado) % (360 * PorGrado)) - 180 * PorGrado
    IN ClasificarAngulo(angulo)

ObtenerDatosArista_Estricta(g, coords, nodo1, nodo2) ==
    [calle |-> <<nodo1, nodo2>>,
     distancia_km |-> IF nodo1 \in DOMAIN g /\ nodo2 \in DOMAIN g[nodo1]
                        THEN g[nodo1][nodo2] ELSE Inf,
     lat_origen |-> CoordsDe(coords, nodo1)[1],
     lon_origen |-> CoordsDe(coords, nodo1)[2],
     lat_destino |-> CoordsDe(coords, nodo2)[1],
     lon_destino |-> CoordsDe(coords, nodo2)[2]]

\* lines 145-166; distancia_km is kept in thousandths of a km, which is what
\* distancia_metros / 1000.0 is of a weight in metres
ObtenerDatosArista(g, coords, nodo1, nodo2) ==
    LET distancia_metros == IF nodo1 \in DOMAIN g /\ nodo2 \in DOMAIN g[nodo1]
                              THEN g[nodo1][nodo2] ELSE 0
    IN [calle |-> <<nodo1, nodo2>>,
        distancia_km |-> distancia_metros,
        lat_origen |-> CoordsDe(coords, nodo1)[1],
        lon_origen |-> CoordsDe(coords, nodo1)[2],
        lat_destino |-> CoordsDe(coords, nodo2)[1],
        lon_destino |-> CoordsDe(coords, nodo2)[2]]

\* lines 219-235: the sentence chosen for the direction
GenerarInstruccion(direccion, es_salida) ==
    IF es_salida THEN "Salga hacia el destino"
    ELSE IF direccion = "Recto" THEN "Continue recto"
    ELSE IF direccion = "Derecha" THEN "Gire a la derecha"
    ELSE IF direccion = "Izquierda" THEN "Gire a la izquierda"
    ELSE IF direccion = "Retorno" THEN "De vuelta en U"
    ELSE IF direccion \in {"Ligera derecha", "Derecha cerrada"}
      THEN "Gire ligeramente a la derecha"
    ELSE IF direccion \in {"Ligera izquierda", "Izquierda cerrada"}
      THEN "Gire ligeramente a la izquierda"
    ELSE "Siga"

InstruccionDe_PasoDesdeCero(g, coords, secuencia_nodos, i) ==
    LET arista_data == ObtenerDatosArista(g, coords, secuencia_nodos[i], secuencia_nodos[i + 1])
        direccion == IF i = 1 THEN "Salida"
                     ELSE CalcularDireccion(coords, secuencia_nodos[i - 1],
                                            secuencia_nodos[i], secuencia_nodos[i + 1])
    IN [paso |-> i - 1,
        nodo_origen |-> secuencia_nodos[i],
        nodo_destino |-> secuencia_nodos[i + 1],
        calle |-> arista_data.calle,
        distancia_km |-> arista_data.distancia_km,
        direccion |-> direccion,
        instruccion |-> GenerarInstruccion(direccion, i = 1),
        lat_origen |-> arista_data.lat_origen,
        lon_origen |-> arista_data.lon_origen,
        lat_destino |-> arista_data.lat_destino,
        lon_destino |-> arista_data.lon_destino]

\* one turn of the loop of lines 86-125, i counted from 1
InstruccionDe(g, coords, secuencia_nodos, i) ==
    LET nodo_actual == secuencia_nodos[i]
        nodo_siguiente == secuencia_nodos[i + 1]
        arista_data == ObtenerDatosArista(g, coords, nodo_actual, nodo_siguiente)
        direccion == IF i = 1 THEN "Salida"
                     ELSE CalcularDireccion(coords, secuencia_nodos[i - 1],
                                            nodo_actual, nodo_siguiente)
    IN [paso |-> i,
        nodo_origen |-> nodo_actual,
        nodo_destino |-> nodo_siguiente,
        calle |-> arista_data.calle,
        distancia_km |-> arista_data.distancia_km,
        direccion |-> direccion,
        instruccion |-> GenerarInstruccion(direccion, i = 1),
        lat_origen |-> arista_data.lat_origen,
        lon_origen |-> arista_data.lon_origen,
        lat_destino |-> arista_data.lat_destino,
        lon_destino |-> arista_data.lon_destino]

GenerarGuia(g, coords, secuencia_nodos) ==
    IF Len(secuencia_nodos) < 2 THEN << >>
    ELSE [i \in 1 .. (Len(secuencia_nodos) - 1) |->
             InstruccionDe(g, coords, secuencia_nodos, i)]

RECURSIVE PrimerPasoMalo(_, _)
\* the loop of lines 404-409: the first position whose paso is not its index,
\* 0 when there is none
PrimerPasoMalo(instrucciones, i) ==
    IF i > Len(instrucciones) THEN 0
    ELSE IF instrucciones[i].paso # i THEN i
    ELSE PrimerPasoMalo(instrucciones, i + 1)

RECURSIVE PrimeraDistanciaNegativa(_, _)
\* the loop of lines 422-427
PrimeraDistanciaNegativa(instrucciones, i) ==
    IF i > Len(instrucciones) THEN 0
    ELSE IF instrucciones[i].distancia_km < 0 THEN i
    ELSE PrimeraDistanciaNegativa(instrucciones, i + 1)

RECURSIVE SumaDistancias(_, _)
SumaDistancias(instrucciones, i) ==
    IF i > Len(instrucciones) THEN 0
    ELSE instrucciones[i].distancia_km + SumaDistancias(instrucciones, i + 1)

\* diferencia_porcentaje > 5 of line 445, without the division:
\* diferencia / esperada * 100 > 5, and 0 when esperada is not positive
SuperaMargen(diferencia, distancia_total_esperada) ==
    distancia_total_esperada > 0 /\ diferencia * 100 > 5 * distancia_total_esperada

ValidarInstrucciones_Tolerante(instrucciones, distancia_total_esperada) ==
    IF instrucciones = << >>
      THEN [valido |-> FALSE, mensaje |-> "No hay instrucciones para validar"]
    ELSE IF PrimerPasoMalo(instrucciones, 1) # 0
      THEN [valido |-> FALSE, mensaje |-> "Secuencia de pasos incorrecta",
            paso |-> instrucciones[PrimerPasoMalo(instrucciones, 1)].paso]
    ELSE [valido |-> TRUE, mensaje |-> "Validacion exitosa",
          distancia_instrucciones |-> SumaDistancias(instrucciones, 1)]

\* the dictionary validar_instrucciones returns, with the keys it has on each
\* path; the numbers the messages interpolate are kept beside the text
ValidarInstrucciones(instrucciones, distancia_total_esperada) ==
    IF instrucciones = << >>
      THEN [valido |-> FALSE, mensaje |-> "No hay instrucciones para validar"]
    ELSE IF PrimerPasoMalo(instrucciones, 1) # 0
      THEN [valido |-> FALSE, mensaje |-> "Secuencia de pasos incorrecta",
            paso |-> instrucciones[PrimerPasoMalo(instrucciones, 1)].paso]
    ELSE IF PrimeraDistanciaNegativa(instrucciones, 1) # 0
      THEN [valido |-> FALSE, mensaje |-> "Distancia negativa",
            paso |-> instrucciones[PrimeraDistanciaNegativa(instrucciones, 1)].paso]
    ELSE LET distancia_total == SumaDistancias(instrucciones, 1)
             diferencia == IF distancia_total < distancia_total_esperada
                             THEN distancia_total_esperada - distancia_total
                           ELSE distancia_total - distancia_total_esperada
         IN IF distancia_total_esperada = NoneVal
              THEN [valido |-> TRUE, mensaje |-> "Validacion exitosa",
                    distancia_instrucciones |-> distancia_total]
            ELSE [valido |-> TRUE,
                  mensaje |-> IF SuperaMargen(diferencia, distancia_total_esperada)
                                THEN "Diferencia en distancia"
                                ELSE "Validacion exitosa",
                  distancia_instrucciones |-> distancia_total,
                  diferencia |-> diferencia,
                  supera_margen |-> SuperaMargen(diferencia, distancia_total_esperada)]

\* ------------------------------------------------ the guide on any path ---
MaxEsperada == 7
Esperadas == {NoneVal} \cup (0 .. MaxEsperada)

SecuenciasGuia == UNION {[1 .. n -> Nodos \cup {NodoAusente}] : n \in 0 .. MaxSecuencia}

InitGuia ==
    /\ grafo \in GrafosCamino
    /\ factor_trafico = 1
    /\ CalcInit /\ GestorInit
    /\ pc = "inicio"
    /\ args \in [secuencia_nodos : SecuenciasGuia]
    /\ ret = [op |-> "ninguna"]

LlamarGenerarGuia ==
    /\ pc = "inicio"
    /\ "secuencia_nodos" \in DOMAIN args
    /\ ret' = [op |-> "generar_guia",
               instrucciones |-> GenerarGuia(grafo, NodosCoords, args.secuencia_nodos)]
    /\ pc' = "guia"
    /\ UNCHANGED <<grafo, factor_trafico, calc, gestor, args>>

LlamarValidarGuia ==
    /\ pc = "guia"
    /\ \E distancia_total_esperada \in Esperadas :
         ret' = [op |-> "validar_instrucciones",
                 instrucciones |-> ret.instrucciones,
                 distancia_total_esperada |-> distancia_total_esperada,
                 resultado |-> ValidarInstrucciones(ret.instrucciones,
                                                    distancia_total_esperada)]
    /\ pc' = "fin"
    /\ UNCHANGED <<grafo, factor_trafico, calc, gestor, args>>

NextGuia == LlamarGenerarGuia \/ LlamarValidarGuia

SpecGuia == InitGuia /\ [][NextGuia]_vars

\* ------------------------------------------ the guide of a computed route ---
InitRuta ==
    /\ grafo \in GrafosAnillo
    /\ factor_trafico \in Factores
    /\ CalcInit /\ GestorInit
    /\ pc = "inicio"
    /\ args \in {a \in [origen : Nodos,
                       destinos : ListasDistintas(Nodos, MaxParadas),
                       retornar_origen : BOOLEAN] : a.origen \notin Rango(a.destinos)}
    /\ ret = [op |-> "ninguna"]

\* the solver as the manager drives it: the matrix over origin and stops,
\* calcular_ruta_tsp, then calcular_camino_completo over its sequence
CalcularRutaYCamino ==
    /\ pc = "inicio"
    /\ "origen" \in DOMAIN args
    /\ \E m \in {PrecalcularMatriz(grafo, factor_trafico, <<args.origen>> \o args.destinos)} :
       \E ruta \in {CalcularRutaTsp(grafo, factor_trafico, m, TRUE, args.origen,
                                    args.destinos, args.retornar_origen)} :
         /\ matriz_distancias' = MatrizTrasTsp(grafo, factor_trafico, m, TRUE,
                                               args.origen, args.destinos)
         /\ ret' = [op |-> "calcular_camino_completo",
                    secuencia |-> ruta.secuencia,
                    distancia_total |-> ruta.dist] @@
                   CalcularCaminoCompleto(grafo, factor_trafico, ruta.secuencia)
    /\ precalculado' = TRUE
    /\ pc' = "ruta"
    /\ UNCHANGED <<grafo, factor_trafico, gestor, args>>

\* generar_guia over the expanded path, next to the distance the solver
\* reported for it
GuiarRuta ==
    /\ pc = "ruta"
    /\ ~ret.error
    /\ ret' = [op |-> "generar_guia",
               camino_completo |-> ret.camino,
               distancia_real |-> ret.distancia,
               instrucciones |-> GenerarGuia(grafo, NodosCoords, ret.camino)]
    /\ pc' = "fin"
    /\ UNCHANGED <<grafo, factor_trafico, calc, gestor, args>>

NextRuta == CalcularRutaYCamino \/ GuiarRuta

SpecRuta == InitRuta /\ [][NextRuta]_vars

\* --------------------------------- the validator on any instruction list ---
MaxInstrucciones == 3

InstruccionSuelta(paso, distancia_km) ==
    [paso |-> paso, nodo_origen |-> 0, nodo_destino |-> 1, calle |-> <<0, 1>>,
     distancia_km |-> distancia_km, direccion |-> "Recto",
     instruccion |-> "Continue recto",
     lat_origen |-> -120, lon_origen |-> -770,
     lat_destino |-> -120, lon_destino |-> -769]

InstruccionesSueltas ==
    UNION {[1 .. n -> {InstruccionSuelta(p, d) : p \in 1 .. MaxInstrucciones, d \in {-1, 0, 1, 3}}] : n \in 0 .. MaxInstrucciones}

InitValidar ==
    /\ grafo = GrafoGestor
    /\ factor_trafico = 1
    /\ CalcInit /\ GestorInit
    /\ pc = "inicio"
    /\ args \in [instrucciones : InstruccionesSueltas,
                 distancia_total_esperada : Esperadas]
    /\ ret = [op |-> "ninguna"]

LlamarValidarInstrucciones ==
    /\ pc = "inicio"
    /\ "instrucciones" \in DOMAIN args
    /\ ret' = [op |-> "validar_instrucciones",
               resultado |-> ValidarInstrucciones(args.instrucciones,
                                                  args.distancia_total_esperada)]
    /\ pc' = "fin"
    /\ UNCHANGED <<grafo, factor_trafico, calc, gestor, args>>

NextValidar == LlamarValidarInstrucciones

SpecValidar == InitValidar /\ [][NextValidar]_vars

\* --------------------------------------------- the classifier on its own ---
Angulos == (-180 * PorGrado) .. (180 * PorGrado)

InitAngulo ==
    /\ grafo = GrafoGestor
    /\ factor_trafico = 1
    /\ CalcInit /\ GestorInit
    /\ pc = "inicio"
    /\ args \in [angulo : Angulos]
    /\ ret = [op |-> "ninguna"]

LlamarClasificarAngulo ==
    /\ pc = "inicio"
    /\ "angulo" \in DOMAIN args
    /\ ret' = [op |-> "clasificar_angulo", direccion |-> ClasificarAngulo(args.angulo)]
    /\ pc' = "fin"
    /\ UNCHANGED <<grafo, factor_trafico, calc, gestor, args>>

NextAngulo == LlamarClasificarAngulo

SpecAngulo == InitAngulo /\ [][NextAngulo]_vars

\* ============================================================= claims ===
\* reference oracles, independent of the algorithms above
TodasLasListas == ListasDistintas(Nodos, NumNodos)

Permutaciones(S) == {l \in TodasLasListas : Rango(l) = S}

RECURSIVE CostoSecuencia(_, _, _)
\* the matrix distance summed along consecutive elements of sec, from i on
CostoSecuencia(m, sec, i) ==
    IF i >= Len(sec) THEN 0
    ELSE Suma(MatGet(m, sec[i], sec[i + 1]), CostoSecuencia(m, sec, i + 1))

CostoAbierto(m, origen, p) == CostoSecuencia(m, <<origen>> \o p, 1)
CostoCerrado(m, origen, p) == CostoSecuencia(m, <<origen>> \o p \o <<origen>>, 1)

MatrizFinita(m, nodos) == \A a \in nodos, b \in nodos : MatGet(m, a, b) < Inf

\* held_karp was called on distinct stops with the matrix precomputed over
\* origin and stops, every distance finite
CasoHeldKarp(retornar) ==
    /\ pc = "fin" /\ ret.op = "held_karp" /\ ret.previo = "listo"
    /\ args.propios /\ args.retornar_origen = retornar
    /\ Len(args.destinos) >= 2
    /\ MatrizFinita(matriz_distancias, {args.origen} \cup Rango(args.destinos))

\* C1: held_karp without return to the origin gives the minimum open path
\* cost over all permutations of the stops, and its sequence is the origin
\* followed by a permutation of the stops that achieves that minimum.
C1_CaminoAbiertoOptimo ==
    CasoHeldKarp(FALSE) =>
        LET perms == Permutaciones(Rango(args.destinos))
            minimo == MinDe({CostoAbierto(matriz_distancias, args.origen, p) : p \in perms})
        IN /\ ret.dist = minimo
           /\ Head(ret.secuencia) = args.origen
           /\ Tail(ret.secuencia) \in perms
           /\ CostoAbierto(matriz_distancias, args.origen, Tail(ret.secuencia)) = minimo

\* three stops whose given order is not the cheapest one
C1_Testigo ==
    /\ CasoHeldKarp(FALSE)
    /\ Len(args.destinos) = 3
    /\ CostoAbierto(matriz_distancias, args.origen, args.destinos) > ret.dist

\* C2: held_karp with return to the origin gives the minimum closed tour
\* cost over all permutations of the stops.
C2_CicloCerradoOptimo ==
    CasoHeldKarp(TRUE) =>
        ret.dist = MinDe({CostoCerrado(matriz_distancias, args.origen, p) :
                            p \in Permutaciones(Rango(args.destinos))})

\* ----------------------------------------------------------------- C3 ---
EsCamino(g, l) ==
    /\ Len(l) >= 1
    /\ \A i \in 1 .. (Len(l) - 1) : l[i] \in DOMAIN g /\ l[i + 1] \in DOMAIN g[l[i]]

RECURSIVE PesoCamino(_, _, _)
PesoCamino(g, l, i) ==
    IF i >= Len(l) THEN 0 ELSE g[l[i]][l[i + 1]] + PesoCamino(g, l, i + 1)

\* with non-negative weights a shortest path can be taken simple
CaminosSimples(g, origen, destino) ==
    {l \in TodasLasListas :
        Len(l) >= 1 /\ l[1] = origen /\ l[Len(l)] = destino /\ EsCamino(g, l)}

CasoDijkstra ==
    /\ pc = "fin" /\ ret.op = "dijkstra"
    /\ args.origen \in DOMAIN grafo /\ args.destino \in DOMAIN grafo
    /\ CaminosSimples(grafo, args.origen, args.destino) # {}

\* C3: for connected origen and destino, dijkstra returns factor_trafico
\* times the minimum edge-weight sum over all paths, and a path from origen
\* to destino made of edges of the graph whose weights times factor_trafico
\* sum to the returned distance.
C3_DijkstraCorrecto ==
    CasoDijkstra =>
        /\ ret.dist = factor_trafico *
              MinDe({PesoCamino(grafo, l, 1) :
                        l \in CaminosSimples(grafo, args.origen, args.destino)})
        /\ ret.camino # << >>
        /\ ret.camino[1] = args.origen
        /\ ret.camino[Len(ret.camino)] = args.destino
        /\ EsCamino(grafo, ret.camino)
        /\ factor_trafico * PesoCamino(grafo, ret.camino, 1) = ret.dist

\* the direct edge exists and is beaten by a detour, under a factor above 1
C3_Testigo ==
    /\ CasoDijkstra
    /\ factor_trafico > 1
    /\ args.destino \in DOMAIN grafo[args.origen]
    /\ ret.dist < factor_trafico * grafo[args.origen][args.destino]
    /\ Len(ret.camino) >= 3

\* ---------------------------------------------------------------- C10 ---
\* what the solver returns once the matrix holds origin and stops
ConMatrizPropia(a) ==
    CalcularRutaTsp(grafo, factor_trafico,
                    PrecalcularMatriz(grafo, factor_trafico, <<a.origen>> \o a.destinos),
                    TRUE, a.origen, a.destinos, a.retornar_origen)

\* C10: a pairwise distance missing from the matrix is computed on demand:
\* calcular_ruta_tsp with one stop and no precomputation, and held_karp after
\* a precomputation over another node set, return what they return after
\* precomputing over origin and stops.
C10_DistanciaBajoDemanda ==
    /\ (pc = "fin" /\ ret.op = "calcular_ruta_tsp" /\ ret.previo = "inicio"
          /\ Len(args.destinos) = 1)
         => ret.dist = ConMatrizPropia(args).dist
    /\ (pc = "fin" /\ ret.op = "held_karp" /\ ret.previo = "listo"
          /\ ~args.propios /\ Len(args.destinos) >= 2)
         => ret.dist = ConMatrizPropia(args).dist

\* --------------------------------------------------- manager claims ---
UltimaFue(op) == ret.op = op

\* the last call ran the simulation and it succeeded, so that the stored
\* assignment is what it returned for the destinations of the order
SimulacionExitosa ==
    /\ validacion_por_simulacion
    /\ \/ UltimaFue("agregar_destino") /\ ret.ok
       \/ UltimaFue("calcular_ruta_optima") /\ ret.sim_ok
                                            /\ ret.motivo \in {"", "ValueError"}

\* what the assignment gives to one destination of one flower
Asignado(asig, destino_id, fl) ==
    LET porVivero == Get(asig, destino_id, << >>)
        vids == SelectSeq([i \in 1 .. 20 |-> i], LAMBDA v : v \in DOMAIN porVivero)
    IN SumaLista([i \in 1 .. Len(vids) |-> Get(porVivero[vids[i]], fl, 0)])

\* ----------------------------------------------------------------- C4 ---
\* C4: whenever the simulation succeeds, for every destination of its input
\* and every flower of its demand, the quantities assigned to the destination
\* summed over the suppliers equal the demanded quantity exactly.
C4_AsignacionExacta ==
    SimulacionExitosa =>
        \A i \in DOMAIN pedido_actual : \A fl \in Flores :
            Asignado(asignaciones_reabastecimiento, pedido_actual[i].destino_id, fl)
                = pedido_actual[i].flores_requeridas[fl]

\* a successful simulation that split one destination over two suppliers
C4_Testigo ==
    /\ SimulacionExitosa
    /\ \E i \in DOMAIN pedido_actual :
          Cardinality(DOMAIN asignaciones_reabastecimiento[pedido_actual[i].destino_id]) = 2

\* ----------------------------------------------------------------- C5 ---
\* C5: under the simulated policy every stock decrement committed by
\* agregar_destino is at most the supplier's stock of that flower just before
\* it, and no stock is ever negative.
C5_DescuentoDentroDelStock ==
    /\ \A vid \in DOMAIN viveros : \A fl \in Flores : viveros[vid].stock[fl] >= 0
    /\ (UltimaFue("agregar_destino") /\ ret.ok /\ validacion_por_simulacion) =>
          \A vid \in DOMAIN ret.consumos : \A fl \in DOMAIN ret.consumos[vid] :
              ret.consumos[vid][fl] <= ret.stock_antes[vid][fl]

\* a commit under the simulated policy that emptied one supplier and took the
\* rest of the demand from another
C5_Testigo ==
    /\ UltimaFue("agregar_destino") /\ ret.ok /\ validacion_por_simulacion
    /\ Cardinality(DOMAIN ret.consumos) = 2
    /\ \E vid \in DOMAIN ret.consumos : \E fl \in Flores :
          /\ ret.consumos[vid][fl] > 0
          /\ ret.consumos[vid][fl] = ret.stock_antes[vid][fl]
          /\ viveros[vid].stock[fl] = 0

\* ----------------------------------------------------------------- C6 ---
\* C6: every agregar_destino call that fails leaves every supplier's stock and
\* delivery capacity and the destination list of the order as they were,
\* under both policies.
C6_RechazoSinEfecto ==
    [][(ret'.op = "agregar_destino" /\ ~ret'.ok) =>
          /\ DOMAIN viveros' = DOMAIN viveros
          /\ \A vid \in DOMAIN viveros :
                /\ viveros'[vid].stock = viveros[vid].stock
                /\ viveros'[vid].capacidad_entrega = viveros[vid].capacidad_entrega
          /\ pedido_actual' = pedido_actual]_vars

\* the simulation rejected a destination of an order that already has one,
\* after earlier commits had taken stock
C6_Testigo ==
    /\ UltimaFue("agregar_destino") /\ ~ret.ok /\ ret.motivo = "simulacion"
    /\ pedido_actual # Nada /\ Len(pedido_actual) >= 1
    /\ \E vid \in DOMAIN viveros : viveros[vid].stock # Catalogo[vid].stock

\* ----------------------------------------------------------------- C7 ---
RECURSIVE Cierre(_, _)
\* the nodes that streets connect to the nodes of S
Cierre(g, S) ==
    LET T == S \cup UNION {DOMAIN g[a] : a \in S \cap DOMAIN g}
    IN IF T = S THEN S ELSE Cierre(g, T)

Alcanzable(g, a, b) == b \in Cierre(g, {a})

\* calcular_ruta_optima ran on an order of 1 to 20 destinations
RutaCalculada ==
    /\ pc = "fin" /\ UltimaFue("calcular_ruta_optima")
    /\ ret.motivo \in {"", "ValueError"}

\* C7: if some destination node of the order is unreachable from the origin
\* node, calcular_ruta_optima never returns success and never stores a Route.
C7_InalcanzableFalla ==
    (RutaCalculada /\ \E i \in DOMAIN pedido_actual :
         ~Alcanzable(grafo, viveros[vivero_actual].nodo_id, pedido_actual[i].nodo_id))
      => (~ret.ok /\ ruta_actual = Ninguno)

\* ----------------------------------------------------------------- C8 ---
\* C8: when the simulated policy is active and the allocation run inside
\* calcular_ruta_optima fails, the call returns failure and creates no Route;
\* it does not fall back to a route without resupply stops.
C8_FalloDeAsignacionSinRuta ==
    (RutaCalculada /\ validacion_por_simulacion /\ ~ret.sim_ok)
      => (~ret.ok /\ ~ret.excepcion /\ ruta_actual = Ninguno)

\* ----------------------------------------------------------------- C9 ---
\* the non-origin suppliers named by the stored assignment
ProveedoresAsignados ==
    IF HayAsignaciones(asignaciones_reabastecimiento)
      THEN ViverosReabastecimiento(asignaciones_reabastecimiento) \ {vivero_actual}
      ELSE {}

\* C9: whenever calcular_ruta_optima returns success, the stored visit
\* sequence starts at the origin's node and contains the node of every
\* destination of the order and of every non-origin supplier of the stored
\* assignment, also when two of these map to the same node.
C9_SecuenciaCompleta ==
    (RutaCalculada /\ ret.ok) =>
        /\ ruta_actual # Ninguno
        /\ ruta_actual.secuencia_visitas[1] = viveros[vivero_actual].nodo_id
        /\ \A i \in DOMAIN pedido_actual :
              pedido_actual[i].nodo_id \in Rango(ruta_actual.secuencia_visitas)
        /\ \A vid \in ProveedoresAsignados :
              NodoProveedor(grafo, viveros[vid]) \in Rango(ruta_actual.secuencia_visitas)

\* ---------------------------------------------------------------- C11 ---
\* C11: the order never holds more than 20 destinations: agregar_destino on
\* an order of 20 is rejected and changes nothing; and calcular_ruta_optima
\* on an order of 0 destinations returns failure and computes nothing (no
\* route, no assignment, no distance matrix).
C11_TopeDeDestinos ==
    /\ [](pedido_actual # Nada => Len(pedido_actual) <= 20)
    /\ [][((ret'.op = "agregar_destino" /\ ret' # ret /\ pedido_actual # Nada
              /\ Len(pedido_actual) >= 20)
             => (~ret'.ok /\ UNCHANGED <<gestor, calc>>))
          /\ ((ret'.op = "calcular_ruta_optima" /\ pc = "gestor"
                /\ pedido_actual # Nada /\ Len(pedido_actual) = 0)
               => (~ret'.ok /\ UNCHANGED <<gestor, calc>>))]_vars

\* the 21st destination was refused
C11_Testigo ==
    /\ UltimaFue("agregar_destino") /\ ~ret.ok /\ ret.motivo = "cantidad"
    /\ Len(pedido_actual) = 20

\* ---------------------------------------------------------------- C12 ---
\* C12: agregar_destino rejects the new destination, under both policies,
\* whenever for some flower the stock of the origin and the selected
\* suppliers together is below the demand of the order's destinations plus
\* the new one. Stated on the accepting steps: an accepted call appends the
\* destination, and the suppliers' stock before the call covers, for every
\* flower, the demand of the order after it.
RECURSIVE StockEn(_, _, _)
\* the stock of one flower held together by the nurseries vs of a set of ids
StockEn(vs, S, fl) ==
    IF S = {} THEN 0
    ELSE LET vid == MinDe(S) IN vs[vid].stock[fl] + StockEn(vs, S \ {vid}, fl)

StockDe(S, fl) == StockEn(viveros, S, fl)

\* the active origin and the selected suppliers that are registered
ProveedoresDisponibles ==
    {vivero_actual} \cup (Rango(viveros_seleccionados_ids) \cap DOMAIN viveros)

RECURSIVE DemandaDe(_, _)
DemandaDe(destinos, fl) ==
    IF destinos = << >> THEN 0
    ELSE Head(destinos).flores_requeridas[fl] + DemandaDe(Tail(destinos), fl)

C12_StockInsuficienteRechaza ==
    [][(ret'.op = "agregar_destino" /\ ret'.ok) =>
          /\ Len(pedido_actual') = Len(pedido_actual) + 1
          /\ SubSeq(pedido_actual', 1, Len(pedido_actual)) = pedido_actual
          /\ \A fl \in Flores :
                StockDe(ProveedoresDisponibles, fl) >= DemandaDe(pedido_actual', fl)]_vars

\* the first destination of an order asked for more than the origin holds,
\* with no other supplier selected, and the eager check refused it
C12_Testigo ==
    /\ UltimaFue("agregar_destino") /\ ~ret.ok /\ ret.motivo = "stock"
    /\ ~validacion_por_simulacion
    /\ pedido_actual = << >>
    /\ viveros_seleccionados_ids = << >>
    /\ \A fl \in Flores : viveros[vivero_actual].stock[fl] < MaxDemanda

\* ---------------------------------------------------------------- C13 ---
\* a step that is a call of agregar_destino under the eager policy with valid
\* coordinates and node, on an order of one destination: together with the
\* new destination the demand exceeds the origin's stock for some flower and
\* is covered by the origin plus the supplementary nursery s, whose delivery
\* capacities together suffice for two destinations
SegundoDestinoConSuplente(s) ==
    /\ ret'.op = "agregar_destino"
    /\ ~validacion_por_simulacion
    /\ vivero_actual # NoneVal
    /\ s \in DOMAIN viveros \ {vivero_actual}
    /\ IF pedido_actual = Nada THEN FALSE ELSE Len(pedido_actual) = 1
    /\ args'.lat >= LAT_MIN /\ args'.lat <= LAT_MAX
    /\ args'.lon >= LON_MIN /\ args'.lon <= LON_MAX
    /\ args'.nodo_id \in DOMAIN grafo \cup {NoneVal}
    /\ \E fl \in Flores :
          pedido_actual[1].flores_requeridas[fl] + args'.flores_requeridas[fl]
            > viveros[vivero_actual].stock[fl]
    /\ \A fl \in Flores :
          pedido_actual[1].flores_requeridas[fl] + args'.flores_requeridas[fl]
            <= viveros[vivero_actual].stock[fl] + viveros[s].stock[fl]
    /\ viveros[vivero_actual].capacidad_entrega + viveros[s].capacidad_entrega >= 2

\* C13: under the eager policy, a second destination whose demand, added to
\* the first one's, exceeds the origin's stock but is covered by the origin
\* plus one supplementary supplier is rejected while that supplier is not in
\* the selected set, and accepted once set_viveros_seleccionados has put it
\* there.
C13_SuplenteSeleccionado ==
    [][\A s \in ViveroIds :
          SegundoDestinoConSuplente(s) =>
             IF s \in Rango(viveros_seleccionados_ids)
               THEN ret'.ok /\ Len(pedido_actual') = 2
               ELSE ~ret'.ok /\ pedido_actual' = pedido_actual]_vars

\* the second destination was accepted with the supplementary supplier
\* selected, where the origin alone does not hold the demand of the two
C13_Testigo ==
    /\ UltimaFue("agregar_destino") /\ ret.ok /\ ~validacion_por_simulacion
    /\ Len(pedido_actual) = 2
    /\ viveros_seleccionados_ids # << >>
    /\ \E fl \in Flores :
          DemandaDe(pedido_actual, fl) > viveros[vivero_actual].stock[fl]

\* ---------------------------------------------------------------- C14 ---
\* C14: under the eager policy every accepted agregar_destino decrements the
\* suppliers' stock at once: no supplier's stock grows or goes below zero,
\* and the stock of the origin and the selected suppliers together falls, for
\* every flower, by exactly the quantity the new destination demands.
C14_DescuentoInmediato ==
    [][(ret'.op = "agregar_destino" /\ ret'.ok /\ ~validacion_por_simulacion) =>
          /\ \A vid \in DOMAIN viveros : \A fl \in Flores :
                /\ viveros'[vid].stock[fl] <= viveros[vid].stock[fl]
                /\ viveros'[vid].stock[fl] >= 0
          /\ \A fl \in Flores :
                StockEn(viveros', ProveedoresDisponibles, fl)
                  = StockEn(viveros, ProveedoresDisponibles, fl)
                      - args'.flores_requeridas[fl]]_vars

\* ---------------------------------------------------------------- C15 ---
\* C15: under the simulated policy no destination's demand is split: in every
\* successful assignment each destination of the order is served by one
\* supplier only (the run fails rather than combine two suppliers).
C15_SinReparto ==
    SimulacionExitosa =>
        \A i \in DOMAIN pedido_actual :
            Cardinality(DOMAIN Get(asignaciones_reabastecimiento,
                                   pedido_actual[i].destino_id, << >>)) <= 1

\* ---------------------------------------------------------------- C16 ---
\* shortest street distance, by enumeration of the simple paths
DistanciaCalle(a, b) ==
    IF a = b THEN 0
    ELSE IF CaminosSimples(grafo, a, b) = {} THEN Inf
    ELSE factor_trafico * MinDe({PesoCamino(grafo, l, 1) : l \in CaminosSimples(grafo, a, b)})

RECURSIVE LargoPorCalles(_, _)
LargoPorCalles(sec, i) ==
    IF i >= Len(sec) THEN 0
    ELSE Suma(DistanciaCalle(sec[i], sec[i + 1]), LargoPorCalles(sec, i + 1))

\* the cost of the best open route from the origin's node over the nodes of
\* the suppliers of S and of the destinations
CosteDeRuta(S, origen_id, destinos) ==
    LET onode == viveros[origen_id].nodo_id
        N == ({viveros[v].nodo_id : v \in S} \cup {destinos[i].nodo_id : i \in DOMAIN destinos})
               \ {onode}
    IN MinDe({LargoPorCalles(<<onode>> \o p, 1) : p \in Permutaciones(N)})

\* the supplier sets that contain the origin and cover the demand
Cubren(origen_id, supplier_ids, destinos) ==
    {S \in SUBSET Rango(supplier_ids) :
        /\ origen_id \in S
        /\ \A fl \in Flores : StockEn(viveros, S, fl) >= DemandaDe(destinos, fl)}

SimulacionHecha == pc = "fin" /\ ret.op = "simular"

\* C16: the subset search fails only when no supplier set with the origin
\* covers the demand; otherwise the chosen subset contains the origin, covers
\* the demand, has the least cardinality among the sets that do, and among
\* those of that cardinality has the least route cost.
C16_SubconjuntoMinimo ==
    SimulacionHecha =>
        LET origen_id == args.supplier_ids[1]
            cubren == Cubren(origen_id, args.supplier_ids, args.destinos)
        IN IF ret.subconjunto = Nada THEN cubren = {}
           ELSE LET S == Rango(ret.subconjunto)
                IN /\ origen_id \in S
                   /\ S \in cubren
                   /\ \A T \in cubren :
                         /\ Cardinality(S) <= Cardinality(T)
                         /\ Cardinality(T) = Cardinality(S) =>
                               CosteDeRuta(S, origen_id, args.destinos)
                                 <= CosteDeRuta(T, origen_id, args.destinos)

\* ---------------------------------------------------------------- C17 ---
CapacidadDe(vs, vid) == vs[vid].capacidad_entrega

\* C17: every accepted agregar_destino lowers the delivery capacity of exactly
\* one supplier by exactly 1 and leaves the others as they were, under both
\* policies, and no capacity is ever negative.
C17_UnaCapacidadMenos ==
    /\ [](\A vid \in DOMAIN viveros : CapacidadDe(viveros, vid) >= 0)
    /\ [][(ret'.op = "agregar_destino" /\ ret' # ret /\ ret'.ok) =>
            (/\ DOMAIN viveros' = DOMAIN viveros
             /\ \E vid \in DOMAIN viveros :
                   /\ CapacidadDe(viveros', vid) = CapacidadDe(viveros, vid) - 1
                   /\ \A otro \in DOMAIN viveros \ {vid} :
                         CapacidadDe(viveros', otro) = CapacidadDe(viveros, otro))]_vars

\* ---------------------------------------------------------------- C18 ---
DijkstraHecho == pc = "fin" /\ ret.op = "dijkstra"

SinCamino(g, origen, destino) ==
    \/ origen \notin DOMAIN g
    \/ destino \notin DOMAIN g
    \/ CaminosSimples(g, origen, destino) = {}

\* C18: dijkstra returns (infinity, empty path) exactly when origen or
\* destino is not a key of the graph or no path joins them, and never a
\* finite distance with an empty path.
C18_FalloSuave ==
    DijkstraHecho =>
        /\ (ret.dist = Inf /\ ret.camino = << >>)
              <=> SinCamino(grafo, args.origen, args.destino)
        /\ ret.camino = << >> => ret.dist = Inf
        /\ ret.dist = Inf => ret.camino = << >>

\* both nodes are keys of the graph and no path joins them
C18_Testigo ==
    /\ DijkstraHecho
    /\ args.origen \in DOMAIN grafo /\ args.destino \in DOMAIN grafo
    /\ args.origen # args.destino
    /\ DOMAIN grafo[args.origen] # {}
    /\ CaminosSimples(grafo, args.origen, args.destino) = {}
    /\ ret.dist = Inf /\ ret.camino = << >>

\* ---------------------------------------------------------------- C19 ---
\* C19: for every node x that is a key of the graph, the node 0 and a node
\* without neighbours included, dijkstra(x, x) returns distance 0 and the
\* path [x].
C19_MismoNodo ==
    (DijkstraHecho /\ args.origen = args.destino /\ args.origen \in DOMAIN grafo)
        => (ret.dist = 0 /\ ret.camino = <<args.origen>>)

\* the node 0, with no neighbours
C19_Testigo ==
    /\ DijkstraHecho
    /\ args.origen = 0 /\ args.destino = 0
    /\ DOMAIN grafo[0] = {}
    /\ ret.dist = 0 /\ ret.camino = <<0>>

\* ---------------------------------------------------------------- C20 ---
TspHecho == pc = "fin" /\ ret.op = "calcular_ruta_tsp"

\* C20: with every distance finite and n distinct stops, the sequence of
\* calcular_ruta_tsp is the origin, then every stop exactly once, then the
\* origin once more exactly when retornar_origen is set and n >= 1; with no
\* stops the result is distance 0 and [origin]; and the distance returned is
\* the sum of the matrix distances along the sequence returned.
C20_FormaDeLaSecuencia ==
    TspHecho =>
        LET n == Len(args.destinos)
            sec == ret.secuencia
        IN /\ n = 0 => (ret.dist = 0 /\ sec = <<args.origen>>)
           /\ (n >= 1 /\ MatrizFinita(matriz_distancias,
                                      {args.origen} \cup Rango(args.destinos))) =>
                 /\ Len(sec) = n + 1 + (IF args.retornar_origen THEN 1 ELSE 0)
                 /\ sec[1] = args.origen
                 /\ \A d \in Rango(args.destinos) :
                       Cardinality({i \in 2 .. (n + 1) : sec[i] = d}) = 1
                 /\ args.retornar_origen => sec[n + 2] = args.origen
                 /\ ret.dist = CostoSecuencia(matriz_distancias, sec, 1)

\* a closed tour over three stops that are not visited in the given order
C20_Testigo ==
    /\ TspHecho
    /\ Len(args.destinos) = 3 /\ args.retornar_origen
    /\ MatrizFinita(matriz_distancias, {args.origen} \cup Rango(args.destinos))
    /\ Len(ret.secuencia) = 5
    /\ SubSeq(ret.secuencia, 2, 4) # args.destinos
    /\ ret.dist = CostoSecuencia(matriz_distancias, ret.secuencia, 1)

\* ---------------------------------------------------------------- C21 ---
CaminoHecho == pc = "fin" /\ ret.op = "calcular_camino_completo"

SinRepetidosSeguidos(l) == \A i \in 1 .. (Len(l) - 1) : l[i] # l[i + 1]

\* C21: whenever calcular_camino_completo succeeds, sequences with repeated
\* consecutive stops included, the expanded path has no two identical
\* consecutive nodes and is at least as long as the abstract sequence.
C21_CaminoExpandido ==
    (CaminoHecho /\ ~ret.error) =>
        /\ SinRepetidosSeguidos(ret.camino)
        /\ Len(ret.camino) >= Len(args.secuencia)

\* ---------------------------------------------------------------- C22 ---
AnguloHecho == pc = "fin" /\ ret.op = "clasificar_angulo"

\* the bucket table, each bucket with its ends and whether they belong to it
Cubetas ==
    {[etiqueta |-> "Recto", desde |-> -20, hasta |-> 20, cerrada |-> TRUE],
     [etiqueta |-> "Ligera derecha", desde |-> 20, hasta |-> 70, cerrada |-> FALSE],
     [etiqueta |-> "Derecha", desde |-> 70, hasta |-> 110, cerrada |-> TRUE],
     [etiqueta |-> "Derecha cerrada", desde |-> 110, hasta |-> 160, cerrada |-> FALSE],
     [etiqueta |-> "Ligera izquierda", desde |-> -70, hasta |-> -20, cerrada |-> FALSE],
     [etiqueta |-> "Izquierda", desde |-> -110, hasta |-> -70, cerrada |-> TRUE],
     [etiqueta |-> "Izquierda cerrada", desde |-> -160, hasta |-> -110, cerrada |-> FALSE],
     [etiqueta |-> "Retorno", desde |-> 160, hasta |-> 180, cerrada |-> TRUE],
     [etiqueta |-> "Retorno", desde |-> -180, hasta |-> -160, cerrada |-> TRUE]}

EnCubeta(c, a) ==
    IF c.cerrada THEN c.desde * PorGrado <= a /\ a <= c.hasta * PorGrado
                 ELSE c.desde * PorGrado < a /\ a < c.hasta * PorGrado

GuiaHecha == pc = "guia" /\ ret.op = "generar_guia"

C23_FormaDeLaGuia ==
    GuiaHecha =>
      LET camino == args.secuencia_nodos
          guia == ret.instrucciones
      IN /\ Len(guia) = IF Len(camino) < 2 THEN 0 ELSE Len(camino) - 1
         /\ \A i \in 1 .. Len(guia) :
              /\ guia[i].paso = i
              /\ guia[i].nodo_origen = camino[i]
              /\ guia[i].nodo_destino = camino[i + 1]
         /\ \A i \in 1 .. (Len(guia) - 1) :
              guia[i].nodo_destino = guia[i + 1].nodo_origen
         /\ (Len(guia) >= 1 => guia[1].direccion = "Salida")

\* a path with a left turn at its second node
C23_Testigo ==
    /\ GuiaHecha
    /\ args.secuencia_nodos = <<0, 1, 2>>
    /\ Len(ret.instrucciones) = 2
    /\ ret.instrucciones[1].direccion = "Salida"
    /\ ret.instrucciones[2].direccion = "Izquierda"

\* C24: validar_instrucciones answers invalid exactly when the list is empty,
\* the paso values are not 1, 2, ..., k in order, or some distance is
\* negative; a total more than 5% away from the expected one changes the
\* message and leaves the result valid; every call returns a result
ValidarHecho == pc = "fin" /\ ret.op = "validar_instrucciones" /\ "instrucciones" \in DOMAIN args

PasosEnOrden(l) == \A i \in 1 .. Len(l) : l[i].paso = i

HayDistanciaNegativa(l) == \E i \in 1 .. Len(l) : l[i].distancia_km < 0

RECURSIVE TotalDe(_)
TotalDe(l) == IF l = << >> THEN 0 ELSE Head(l).distancia_km + TotalDe(Tail(l))

\* the total of l is more than 5% of e away from e
FueraDeMargen(l, e) ==
    /\ e # NoneVal
    /\ e > 0
    /\ \/ 100 * (TotalDe(l) - e) > 5 * e
       \/ 100 * (e - TotalDe(l)) > 5 * e

C24_InvalidoSoloPorPasosODistancias ==
    ValidarHecho =>
      LET l == args.instrucciones
          r == ret.resultado
      IN /\ {"valido", "mensaje"} \subseteq DOMAIN r
         /\ r.valido = (l # << >> /\ PasosEnOrden(l) /\ ~HayDistanciaNegativa(l))
         /\ (r.valido =>
               (r.mensaje = "Validacion exitosa")
                 = ~FueraDeMargen(l, args.distancia_total_esperada))

\* a well-formed list whose total is far from the expected one
C24_Testigo ==
    /\ ValidarHecho
    /\ Len(args.instrucciones) = 2
    /\ FueraDeMargen(args.instrucciones, args.distancia_total_esperada)
    /\ ret.resultado.valido
    /\ ret.resultado.mensaje = "Diferencia en distancia"

\* C25: for every path of at least two nodes, validar_instrucciones applied
\* to the guide generar_guia built answers valid with no error: the second
\* component of the answer is None (written "" here)
GuiaValidada ==
    /\ pc = "fin"
    /\ ret.op = "validar_instrucciones"
    /\ "secuencia_nodos" \in DOMAIN args

C25_GuiaValidaSinError ==
    (GuiaValidada /\ Len(args.secuencia_nodos) >= 2) =>
      /\ ret.resultado.valido
      /\ ret.resultado.mensaje = ""

\* C26: for every route the solver computed and calcular_camino_completo
\* expanded, under any traffic factor, the distances of the guide's steps add
\* up to the distance the solver reported for the route, within 0.01%
RutaGuiada == pc = "fin" /\ ret.op = "generar_guia" /\ "origen" \in DOMAIN args

C26_GuiaSumaLaDistanciaDeLaRuta ==
    RutaGuiada =>
      LET guia == TotalDe(ret.instrucciones)
          ruta == ret.distancia_real
      IN /\ 10000 * (guia - ruta) <= ruta
         /\ 10000 * (ruta - guia) <= ruta

\* C28: with one supplier of initial delivery capacity C and ample stock, from
\* an empty order, the k-th agregar_destino in a row is accepted for every
\* k <= min(C, 20): a destination is refused only when the order would hold
\* more destinations than that
C28_CapacidadContadaUnaVez ==
    (UltimaFue("agregar_destino") /\ pedido_actual # Nada /\ ~ret.ok) =>
      Len(pedido_actual) + 1 > MinDe({CapacidadJusta, MAX_DESTINOS})

\* C29: under the simulated policy a new destination is accepted whenever the
\* stock the origin and the selected suppliers were registered with covers,
\* flower by flower, the demand of the destinations already accepted plus the
\* new one: the simulation refuses it only when that stock falls short
\* every destination created so far is in the order, at a node the streets
\* reach, and the call just refused asked for that node too
PedidoIntacto ==
    /\ pedido_actual # Nada
    /\ contador_destinos = Len(pedido_actual) + 1
    /\ \A i \in 1 .. Len(pedido_actual) :
          pedido_actual[i].destino_id = i /\ pedido_actual[i].nodo_id = 1
    /\ args.nodo_id = 1

C29_StockContadoUnaVez ==
    (UltimaFue("agregar_destino") /\ ~ret.ok /\ ret.motivo = "simulacion" /\ PedidoIntacto) =>
      \E fl \in Flores :
         StockEn(Catalogo, ProveedoresDisponibles, fl)
           < DemandaDe(pedido_actual, fl) + args.flores_requeridas[fl]

\* C30: eliminar_destino takes out of the order exactly the destination with
\* the given id and leaves the suppliers' stock and capacity, the other
\* destinations and the stored route as they were; with an unknown id or no
\* order it answers failure and changes nothing
EnPedido(destino_id) ==
    IF pedido_actual = Nada THEN FALSE
    ELSE \E i \in 1 .. Len(pedido_actual) : pedido_actual[i].destino_id = destino_id

C30_EliminarSoloQuitaElDestino ==
    [][(ret'.op = "eliminar_destino") =>
         (/\ ret'.ok = EnPedido(ret'.destino_id)
          /\ UNCHANGED <<grafo, factor_trafico, calc, viveros, vivero_actual, ruta_actual,
                         contador_destinos, viveros_seleccionados_ids,
                         validacion_por_simulacion, asignaciones_reabastecimiento>>
          /\ IF EnPedido(ret'.destino_id)
               THEN /\ pedido_actual' = SelectSeq(pedido_actual,
                                          LAMBDA d : d.destino_id # ret'.destino_id)
                    /\ Len(pedido_actual') = Len(pedido_actual) - 1
               ELSE pedido_actual' = pedido_actual)]_vars

\* the second of two destinations was removed: the first one is still in the
\* order, the flowers taken for the order are still out of the inventory and
\* the route computed before is still stored
C30_Testigo ==
    /\ UltimaFue("eliminar_destino") /\ ret.ok /\ ret.destino_id = 2
    /\ Len(pedido_actual) = 1
    /\ pedido_actual[1].destino_id = 1
    /\ ruta_actual # Ninguno
    /\ \E vid \in DOMAIN viveros, fl \in Flores :
          viveros[vid].stock[fl] < Catalogo[vid].stock[fl]

\* C27: when two consecutive nodes of the path are not joined by an edge of
\* the graph, generar_guia still produces their instruction, with distance 0,
\* and builds the guide to the end; a joined pair carries the edge's weight
HayArista(g, a, b) == \E n \in DOMAIN g : n = a /\ \E v \in DOMAIN g[n] : v = b

C27_AristaAusenteDistanciaCero ==
    (GuiaHecha /\ Len(args.secuencia_nodos) >= 2) =>
      LET camino == args.secuencia_nodos
          guia == ret.instrucciones
      IN /\ DOMAIN guia = 1 .. (Len(camino) - 1)
         /\ \A i \in 1 .. (Len(camino) - 1) :
               /\ guia[i].nodo_origen = camino[i]
               /\ guia[i].nodo_destino = camino[i + 1]
               /\ guia[i].distancia_km =
                    IF HayArista(grafo, camino[i], camino[i + 1])
                      THEN grafo[camino[i]][camino[i + 1]] ELSE 0

\* a path that leaves the graph at its first step and follows a street at
\* its last one
C27_Testigo ==
    /\ GuiaHecha
    /\ Len(args.secuencia_nodos) = 3
    /\ args.secuencia_nodos[1] = NodoAusente
    /\ ~HayArista(grafo, args.secuencia_nodos[1], args.secuencia_nodos[2])
    /\ HayArista(grafo, args.secuencia_nodos[2], args.secuencia_nodos[3])
    /\ ret.instrucciones[1].distancia_km = 0
    /\ ret.instrucciones[2].distancia_km > 0

=============================================================================
